---- MODULE Spec2Model ----
(***************************************************************************)
(* A state-machine model of the NVMe-over-PCIe queue pair of               *)
(* lib/nvme/nvme_pcie.c: the tracker pool, the submission and completion   *)
(* rings, the doorbells, and the submit / poll / complete / abort paths,   *)
(* together with a device that fetches commands and posts completions.     *)
(*                                                                         *)
(* The C functions are operators on a record `s` that holds the queue      *)
(* pair, the controller fields they read and the events they emit; the     *)
(* functions call each other exactly as the C code does (complete ->       *)
(* submit -> enable -> abort -> complete ...), so the operators are        *)
(* mutually recursive.  One action of Next is one call of a transport      *)
(* operation, or one step of the device.                                   *)
(***************************************************************************)
EXTENDS Integers, Sequences, FiniteSets, TLC

(***************************************************************************)
(* Sizes.  The source fixes 128/16 (admin) and 256/128 (I/O); the model    *)
(* checks the same code on rings and tracker pools of a few entries.       *)
(***************************************************************************)
NVME_ADMIN_ENTRIES == 3
NVME_ADMIN_TRACKERS == 2
NVME_IO_ENTRIES == 3
NVME_IO_TRACKERS == 3
\* retry limit (the global spdk_nvme_retry_count read by complete_tracker)
spdk_nvme_retry_count == 1
\* number of requests the callers allocate in one behaviour
MaxReqs == 3
\* the same for the admin queue, which two processes share
MaxAdminReqs == 2
\* number of enable / disable / fail / reset / set-resetting calls the
\* controller layer makes in one behaviour
MaxCtl == 2
\* number of error completions the device posts in one behaviour
MaxErrs == 1
\* largest max_completions argument passed to process_completions
MaxPollArg == 4

\* max_completions arguments: unlimited, one, and more than the ring holds
PollArgs == {0, 1, MaxPollArg}

Procs == {"p1", "p2"}
\* the process that owns the I/O queue pair
IoOwner == "p1"
\* the process that drives the controller (reset, enable, disable, fail)
Primary == "p1"

nvme_min(a, b) == IF a < b THEN a ELSE b

(***************************************************************************)
(* Values.                                                                 *)
(***************************************************************************)
\* a completion entry; `stale` marks an entry the device wrote for a command
\* it fetched before the last controller reset
ZeroCpl == [cid |-> 0, sct |-> "GENERIC", sc |-> "SUCCESS", dnr |-> 0, p |-> 0,
            stale |-> FALSE]
ZeroCmd == [cid |-> 0, opc |-> "ZERO"]
\* tr->req == NULL
NoReq == [rid |-> 0, opc |-> "NONE", pid |-> "none", payload |-> "none",
          retries |-> 0, cid |-> 0, cpl |-> ZeroCpl]
\* LIST_NEXT / LIST_FIRST returning NULL
NullTr == 0 - 1

\* requests the callers build: opcode, owning process, payload
\* payload "none": payload_size == 0; "good": every address translates;
\* "bad": spdk_vtophys fails while the PRP/SGL is built
AdminKinds == {[opc |-> "GET_LOG", pid |-> "p1", payload |-> "good"],
               [opc |-> "ASYNC_EVENT_REQUEST", pid |-> "p1", payload |-> "none"],
               [opc |-> "IDENTIFY", pid |-> "p2", payload |-> "good"]}
IoKinds == {[opc |-> "READ", pid |-> IoOwner, payload |-> "good"],
            [opc |-> "WRITE", pid |-> IoOwner, payload |-> "bad"]}

\* statuses the device posts: success, and a transient error that is retried
\* until the retry limit is reached and is then the request's result
DevStatuses == {[sc |-> "SUCCESS", dnr |-> 0],
                [sc |-> "NAMESPACE_NOT_READY", dnr |-> 0]}

VARIABLES
    qid,              \* qpair->id (0: admin queue)
    num_entries,      \* qpair->num_entries (N)
    sq_tail, cq_head, phase, is_enabled,
    is_resetting,     \* qpair->ctrlr->is_resetting
    free_tr,          \* LIST free_tr, head first
    outstanding_tr,   \* LIST outstanding_tr, head first
    tr,               \* the tracker array, indexed by command id
    cmd,              \* submission ring
    cpl,              \* completion ring
    queued_req,       \* qpair->queued_req (STAILQ)
    sq_tdbl, cq_hdbl, \* doorbell registers
    active_procs,     \* pids registered on ctrlr->active_procs
    active_reqs,      \* per process: pending admin requests (STAILQ)
    dev_cq_tail, dev_phase, \* the device's position in the completion ring
    dev_inflight,     \* command ids the device was given and has not completed
    dev_stale,        \* command ids it still holds from before a controller reset
    next_rid,         \* next request the callers allocate
    num_submitted,    \* calls of submit_request made by the callers
    num_completed,    \* requests finished by complete_tracker
    consumed,         \* completion entries consumed since the last reset, mod 2N
    cb_count,         \* per request: invocations of its callback
    free_count,       \* per request: calls of nvme_free_request
    op,               \* the last operation: name, argument, return value
    ev,               \* the events the last operation emitted, in order
    fault,            \* the process dereferenced a NULL request
    ctl_count,        \* calls made by the controller layer so far
    err_count,        \* error completions the device posted so far
    lim,              \* the behaviour's limits: requests, controller calls, errors
    ctrlr,            \* the transport controller: constructed, CMB state
    held,             \* DMA and heap allocations and BAR mappings that exist
    pc,               \* where the create_io_qpair call in progress is waiting
    calls,            \* construction calls made so far
    adm,              \* what the current or last construction call did, in order
    prp,              \* a contiguous payload and what the PRP builder made of it
    plist,            \* one process's pending admin list, its lock and two processes at it
    cmbreg            \* the controller memory buffer: registers, size, bump offset

hostvars == <<qid, num_entries, sq_tail, cq_head, phase, is_enabled, is_resetting,
              free_tr, outstanding_tr, tr, cmd, cpl, queued_req, sq_tdbl, cq_hdbl,
              active_procs, active_reqs, num_completed, consumed, cb_count,
              free_count, fault, dev_inflight>>
devvars == <<dev_cq_tail, dev_phase, dev_stale>>
\* the variables of the controller construction and of the PRP builder, which
\* the queue pair operations leave alone
sidevars == <<ctrlr, held, pc, calls, adm, prp, plist, cmbreg>>
\* the variables of one queue pair and its device
qpvars == <<hostvars, devvars, next_rid, num_submitted, op, ev, ctl_count, err_count, lim>>
vars == <<qpvars, sidevars>>

\* the record the C functions work on
State(self) ==
    [qid |-> qid, num_entries |-> num_entries, sq_tail |-> sq_tail,
     cq_head |-> cq_head, phase |-> phase, is_enabled |-> is_enabled,
     is_resetting |-> is_resetting, free_tr |-> free_tr,
     outstanding_tr |-> outstanding_tr, tr |-> tr, cmd |-> cmd, cpl |-> cpl,
     queued_req |-> queued_req, sq_tdbl |-> sq_tdbl, cq_hdbl |-> cq_hdbl,
     active_procs |-> active_procs, active_reqs |-> active_reqs,
     num_completed |-> num_completed, consumed |-> consumed,
     cb_count |-> cb_count, free_count |-> free_count,
     dev_inflight |-> dev_inflight,
     ev |-> <<>>, rc |-> 0, fault |-> FALSE,
     self |-> self]    \* getpid() of the calling process

Emit(s, e) == [s EXCEPT !.ev = Append(@, e)]

SeqRemove(q, x) == SelectSeq(q, LAMBDA y : y # x)
SeqToSet(q) == {q[i] : i \in 1..Len(q)}
IndexOf(q, x) == CHOOSE i \in 1..Len(q) : q[i] = x

nvme_qpair_is_admin_queue(s) == s.qid = 0
nvme_qpair_is_io_queue(s) == s.qid # 0

\* faulty list macros, which the properties below must tell from the real
\* ones: a removal that leaves the element linked, an insertion that loses
\* it, and a queue insertion at the head instead of the tail
RemoveNothing(q, t) == q
InsertLost(q, t) == q
InsertedAtHead(q, x) == <<x>> \o q

\* LIST_REMOVE(tr, list): unlink tr from the list it is on
LIST_REMOVE(q, t) == SeqRemove(q, t)
\* LIST_INSERT_HEAD
LIST_INSERT_HEAD(q, t) == <<t>> \o q
\* STAILQ_INSERT_TAIL, STAILQ_FIRST, STAILQ_REMOVE_HEAD
STAILQ_INSERT_TAIL(q, x) == Append(q, x)
STAILQ_FIRST(q) == Head(q)
STAILQ_REMOVE_HEAD(q) == Tail(q)

\* LIST_FIRST
ListFirst(q) == IF q = <<>> THEN NullTr ELSE Head(q)
\* LIST_NEXT(tr, list): the element after tr on the list tr is linked on
ListNextIn(q, t) ==
    LET i == IndexOf(q, t) IN IF i = Len(q) THEN NullTr ELSE q[i + 1]
ListNext(s, t) ==
    IF t \in SeqToSet(s.outstanding_tr) THEN ListNextIn(s.outstanding_tr, t)
    ELSE IF t \in SeqToSet(s.free_tr) THEN ListNextIn(s.free_tr, t)
    ELSE NullTr

\* spdk_nvme_cpl_is_error
spdk_nvme_cpl_is_error(c) == ~(c.sct = "GENERIC" /\ c.sc = "SUCCESS")
\* nvme_completion_is_retry: aborted-by-request and namespace-not-ready are
\* transient unless the completion sets do-not-retry
nvme_completion_is_retry(c) ==
    /\ c.sct = "GENERIC"
    /\ c.sc \in {"ABORTED_BY_REQUEST", "NAMESPACE_NOT_READY"}
    /\ c.dnr = 0

\* nvme_free_request
nvme_free_request(s, req) ==
    Emit([s EXCEPT !.free_count[req.rid] = @ + 1],
         [type |-> "free", rid |-> req.rid])
\* req->cb_fn(req->cb_arg, cpl)
InvokeCallback(s, req, c) ==
    Emit([s EXCEPT !.cb_count[req.rid] = @ + 1],
         [type |-> "cb", rid |-> req.rid, sc |-> c.sc, dnr |-> c.dnr,
          pid |-> s.self, owner |-> req.pid])

RECURSIVE nvme_pcie_qpair_complete_tracker(_, _, _, _)
RECURSIVE nvme_qpair_submit_request(_, _)
RECURSIVE nvme_qpair_enable(_)
RECURSIVE nvme_pcie_qpair_submit_request(_, _)
RECURSIVE AbortTrackersLoop(_, _, _)
RECURSIVE AbortAersLoop(_, _)
RECURSIVE ProcessCompletionsLoop(_, _, _)
RECURSIVE CompletePendingLoop(_, _)

\* a faulty tracker constructor: every tracker gets command id 0
TrackerCidZero(cid) == [cid |-> 0, active |-> FALSE, req |-> NoReq]

\* nvme_qpair_construct_tracker: zeroed memory, cid = array index
nvme_qpair_construct_tracker(cid) == [cid |-> cid, active |-> FALSE, req |-> NoReq]

\* nvme_pcie_qpair_reset
nvme_pcie_qpair_reset(s) ==
    [s EXCEPT !.sq_tail = 0, !.cq_head = 0, !.phase = 1,
              !.cmd = [i \in 0..(s.num_entries - 1) |-> ZeroCmd],
              !.cpl = [i \in 0..(s.num_entries - 1) |-> ZeroCpl],
              !.consumed = 0]

\* what the write of the SQ tail doorbell does on the device: it takes the
\* command of the slot the tail moved over
DeviceDoorbell(s, slot) ==
    [s EXCEPT !.dev_inflight = @ \cup {s.cmd[slot].cid}]

\* a faulty submit: the doorbell is written, with the old tail, before the
\* command is copied and the tail advanced
SubmitTrackerDoorbellFirst(s, t) ==
    LET req == s.tr[t].req
        slot == s.sq_tail
        s1 == Emit(DeviceDoorbell([s EXCEPT !.tr[s.tr[t].cid].active = TRUE,
                                            !.sq_tdbl = slot], slot),
                   [type |-> "sq_dbl", val |-> slot])
        s2 == Emit([s1 EXCEPT !.cmd[slot] = [cid |-> req.cid, opc |-> req.opc]],
                   [type |-> "sqcopy", slot |-> slot, cid |-> req.cid,
                    tr |-> t, rid |-> req.rid, retries |-> req.retries])
        nt == IF slot + 1 = s.num_entries THEN 0 ELSE slot + 1
    IN  Emit(Emit([s2 EXCEPT !.sq_tail = nt], [type |-> "sq_tail", val |-> nt]),
             [type |-> "wmb"])

\* nvme_pcie_qpair_submit_tracker
nvme_pcie_qpair_submit_tracker(s, t) ==
    LET req == s.tr[t].req
        slot == s.sq_tail
        s1 == [s EXCEPT !.tr[s.tr[t].cid].active = TRUE]
        s2 == Emit([s1 EXCEPT !.cmd[slot] =
                        [cid |-> req.cid, opc |-> req.opc]],
                   [type |-> "sqcopy", slot |-> slot, cid |-> req.cid,
                    tr |-> t, rid |-> req.rid, retries |-> req.retries])
        nt == IF slot + 1 = s.num_entries THEN 0 ELSE slot + 1
        s3 == Emit([s2 EXCEPT !.sq_tail = nt], [type |-> "sq_tail", val |-> nt])
        s4 == Emit(s3, [type |-> "wmb"])
    IN  Emit(DeviceDoorbell([s4 EXCEPT !.sq_tdbl = s4.sq_tail], slot),
             [type |-> "sq_dbl", val |-> s4.sq_tail])

\* a faulty hand-over: the callback of another process's request is invoked
\* in the calling process
InsertPendingCallsBackHere(s, req, c) == InvokeCallback(s, req, c)

\* a faulty drop: the request whose owner is not found is forgotten, not freed
InsertPendingForgetsDropped(s, req, c) ==
    IF req.pid \in s.active_procs
    THEN Emit([s EXCEPT !.active_reqs[req.pid] =
                            STAILQ_INSERT_TAIL(@, [req EXCEPT !.cpl = c])],
              [type |-> "park", rid |-> req.rid, pid |-> req.pid])
    ELSE Emit(s, [type |-> "drop", rid |-> req.rid])

\* nvme_pcie_qpair_insert_pending_admin_request
nvme_pcie_qpair_insert_pending_admin_request(s, req, c) ==
    IF req.pid \in s.active_procs
    THEN Emit([s EXCEPT !.active_reqs[req.pid] =
                            STAILQ_INSERT_TAIL(@, [req EXCEPT !.cpl = c])],
              [type |-> "park", rid |-> req.rid, pid |-> req.pid])
    ELSE nvme_free_request(Emit(s, [type |-> "drop", rid |-> req.rid]), req)

\* a faulty retry decision: the retry limit is not consulted
RetryIgnoresLimit(c, req) ==
    spdk_nvme_cpl_is_error(c) /\ nvme_completion_is_retry(c)

\* retry = error && nvme_completion_is_retry(cpl) &&
\*         req->retries < spdk_nvme_retry_count
RetryDecision(c, req) ==
    /\ spdk_nvme_cpl_is_error(c)
    /\ nvme_completion_is_retry(c)
    /\ req.retries < spdk_nvme_retry_count

\* nvme_pcie_qpair_complete_tracker
nvme_pcie_qpair_complete_tracker(s, t, c, print_on_error) ==
    IF s.fault THEN s
    ELSE IF s.tr[t].req = NoReq THEN [s EXCEPT !.fault = TRUE]
    ELSE
    LET req == s.tr[t].req
        error == spdk_nvme_cpl_is_error(c)
        retry == RetryDecision(c, req)
        was_active == s.tr[c.cid].active
        s1 == Emit([s EXCEPT !.tr[c.cid].active = FALSE],
                   [type |-> "complete", tr |-> t, rid |-> req.rid, sc |-> c.sc,
                    dnr |-> c.dnr, retry |-> retry, retries |-> req.retries])
    IN  IF retry
        THEN nvme_pcie_qpair_submit_tracker(
                 [s1 EXCEPT !.tr[t].req.retries = @ + 1], t)
        ELSE
        LET other_proc == was_active /\ nvme_qpair_is_admin_queue(s1)
                                     /\ req.pid # s1.self
            s2 == IF ~was_active THEN s1
                  ELSE IF other_proc
                       THEN nvme_pcie_qpair_insert_pending_admin_request(s1, req, c)
                       ELSE InvokeCallback(s1, req, c)
            s3 == IF other_proc THEN s2 ELSE nvme_free_request(s2, req)
            s4 == Emit([s3 EXCEPT !.tr[t].req = NoReq,
                                  !.outstanding_tr = LIST_REMOVE(@, t),
                                  !.free_tr = LIST_INSERT_HEAD(LIST_REMOVE(@, t), t),
                                  !.num_completed = @ + 1],
                       [type |-> "release", tr |-> t,
                        oldest |-> IF s3.queued_req = <<>> THEN 0
                                   ELSE s3.queued_req[1].rid,
                        enabled |-> s3.is_enabled])
        IN  IF s4.queued_req # <<>> /\ ~s4.is_resetting
            THEN nvme_qpair_submit_request(
                     Emit([s4 EXCEPT !.queued_req = STAILQ_REMOVE_HEAD(@)],
                          [type |-> "pop", rid |-> STAILQ_FIRST(s4.queued_req).rid,
                           tr |-> t,
                           payload |-> STAILQ_FIRST(s4.queued_req).payload]),
                     STAILQ_FIRST(s4.queued_req))
            ELSE s4

\* nvme_pcie_qpair_manual_complete_tracker
nvme_pcie_qpair_manual_complete_tracker(s, t, sct, sc, dnr, print_on_error) ==
    nvme_pcie_qpair_complete_tracker(
        s, t, [cid |-> s.tr[t].cid, sct |-> sct, sc |-> sc, dnr |-> dnr, p |-> 0,
               stale |-> FALSE],
        print_on_error)

\* the body of LIST_FOREACH_SAFE in nvme_pcie_qpair_abort_trackers: the next
\* element is read before the current one is completed
AbortTrackersLoop(s, t, dnr) ==
    IF s.fault \/ t = NullTr THEN s
    ELSE LET temp == ListNext(s, t)
         IN  AbortTrackersLoop(
                 nvme_pcie_qpair_manual_complete_tracker(
                     s, t, "GENERIC", "ABORTED_BY_REQUEST", dnr, TRUE),
                 temp, dnr)

\* nvme_pcie_qpair_abort_trackers
nvme_pcie_qpair_abort_trackers(s, dnr) ==
    AbortTrackersLoop(s, ListFirst(s.outstanding_tr), dnr)

\* tr = LIST_FIRST(&pqpair->outstanding_tr) in nvme_pcie_admin_qpair_abort_aers:
\* the walk (re)starts at the head of the list
AbortAersFromFirst(s) == AbortAersLoop(s, ListFirst(s.outstanding_tr))

\* the while loop of nvme_pcie_admin_qpair_abort_aers
AbortAersLoop(s, t) ==
    IF s.fault \/ t = NullTr THEN s
    ELSE IF s.tr[t].req.opc = "ASYNC_EVENT_REQUEST"
    THEN AbortAersFromFirst(
             nvme_pcie_qpair_manual_complete_tracker(
                 s, t, "GENERIC", "ABORTED_SQ_DELETION", 0, FALSE))
    ELSE AbortAersLoop(s, ListNext(s, t))

\* nvme_pcie_admin_qpair_abort_aers
nvme_pcie_admin_qpair_abort_aers(s) == AbortAersFromFirst(s)

\* a faulty enable: it aborts with do-not-retry on every queue
EnableNeverRetries(s) ==
    nvme_pcie_qpair_abort_trackers(
        Emit([s EXCEPT !.is_enabled = TRUE], [type |-> "enable"]), 1)

\* nvme_pcie_qpair_enable (with nvme_pcie_admin_qpair_enable and
\* nvme_pcie_io_qpair_enable)
nvme_pcie_qpair_enable(s) ==
    LET s1 == Emit([s EXCEPT !.is_enabled = TRUE], [type |-> "enable"])
    IN  IF nvme_qpair_is_io_queue(s1)
        THEN nvme_pcie_qpair_abort_trackers(s1, 0)
        ELSE nvme_pcie_qpair_abort_trackers(s1, 1)

\* nvme_pcie_qpair_disable (with the admin and I/O variants)
nvme_pcie_qpair_disable(s) ==
    LET s1 == [s EXCEPT !.is_enabled = FALSE]
    IN  IF nvme_qpair_is_io_queue(s1) THEN s1
        ELSE nvme_pcie_admin_qpair_abort_aers(s1)

\* nvme_pcie_qpair_fail
nvme_pcie_qpair_fail(s) == nvme_pcie_qpair_abort_trackers(s, 1)

\* nvme_qpair_enable of the generic queue-pair layer: it dispatches to the
\* transport's enable
nvme_qpair_enable(s) == nvme_pcie_qpair_enable(s)

\* a faulty check: it enables a disabled queue pair even while the
\* controller is resetting
CheckEnabledIgnoresReset(s) ==
    IF ~s.is_enabled THEN nvme_qpair_enable(s) ELSE s

\* nvme_pcie_qpair_check_enabled: the state after the call; the value it
\* returns is is_enabled of that state
nvme_pcie_qpair_check_enabled(s) ==
    IF ~s.is_enabled /\ ~s.is_resetting THEN nvme_qpair_enable(s) ELSE s

\* a faulty failure path: the request is not completed and the tracker is
\* left where submit put it
FailRequestLeavesTracker(s, t) == s

\* nvme_pcie_fail_request_bad_vtophys
nvme_pcie_fail_request_bad_vtophys(s, t) ==
    nvme_pcie_qpair_manual_complete_tracker(s, t, "GENERIC", "INVALID_FIELD", 1, TRUE)

\* nvme_pcie_qpair_submit_request from the state s1 its call of
\* nvme_pcie_qpair_check_enabled left; the return value is left in s.rc
SubmitRequestChecked(s1, req) ==
    LET t == ListFirst(s1.free_tr)
    IN  IF s1.fault THEN s1
        ELSE IF t = NullTr \/ ~s1.is_enabled
        THEN Emit([s1 EXCEPT !.queued_req = STAILQ_INSERT_TAIL(@, req), !.rc = 0],
                  [type |-> "queue", rid |-> req.rid])
        ELSE
        LET r2 == [req EXCEPT !.cid = s1.tr[t].cid]
            s2 == [s1 EXCEPT !.free_tr = LIST_REMOVE(@, t),
                             !.outstanding_tr = LIST_INSERT_HEAD(@, t),
                             !.tr[t].req = r2]
        IN  IF r2.payload = "bad"
            THEN [nvme_pcie_fail_request_bad_vtophys(s2, t) EXCEPT !.rc = -1]
            ELSE [nvme_pcie_qpair_submit_tracker(s2, t) EXCEPT !.rc = 0]

\* nvme_pcie_qpair_submit_request
nvme_pcie_qpair_submit_request(s, req) ==
    IF s.fault THEN s
    ELSE SubmitRequestChecked(nvme_pcie_qpair_check_enabled(s), req)

\* nvme_qpair_submit_request of the generic queue-pair layer: it passes the
\* request to the transport's submit
nvme_qpair_submit_request(s, req) == nvme_pcie_qpair_submit_request(s, req)

\* the STAILQ_FOREACH_SAFE loop of
\* nvme_pcie_qpair_complete_pending_admin_request
CompletePendingLoop(s, q) ==
    IF q = <<>> THEN s
    ELSE CompletePendingLoop(
             nvme_free_request(InvokeCallback(s, Head(q), Head(q).cpl), Head(q)),
             Tail(q))

\* nvme_pcie_qpair_complete_pending_admin_request
nvme_pcie_qpair_complete_pending_admin_request(s) ==
    CompletePendingLoop([s EXCEPT !.active_reqs[s.self] = <<>>],
                        s.active_reqs[s.self])

\* a faulty advance of cq_head: it wraps without flipping the phase
AdvanceNoPhaseFlip(s) ==
    [s EXCEPT !.cq_head = IF @ + 1 = s.num_entries THEN 0 ELSE @ + 1,
              !.consumed = (@ + 1) % (2 * s.num_entries)]

\* the advance of cq_head, with the phase flip on wrap, in the loop of
\* nvme_pcie_qpair_process_completions
AdvanceCqHead(s) ==
    IF s.cq_head + 1 = s.num_entries
    THEN [s EXCEPT !.cq_head = 0, !.phase = 1 - @,
                   !.consumed = (@ + 1) % (2 * s.num_entries)]
    ELSE [s EXCEPT !.cq_head = @ + 1,
                   !.consumed = (@ + 1) % (2 * s.num_entries)]

\* if (++num_completions == max_completions) break; n counts the entry
\* just consumed
\* a faulty branch: the completion of an inactive tracker marks it active
InactiveTrackerMarksActive(s, c) ==
    [Emit(s, [type |-> "protocol_error", cid |-> c.cid])
        EXCEPT !.tr[c.cid].active = TRUE]

\* the branch of nvme_pcie_qpair_process_completions for a completion whose
\* tracker is not active: an error is logged (assert(0) is compiled out)
InactiveTracker(s, c) == Emit(s, [type |-> "protocol_error", cid |-> c.cid])

ProcessCompletionsNext(s, n, max_completions) ==
    IF s.fault THEN s
    ELSE IF n = max_completions THEN [s EXCEPT !.rc = n]
    ELSE ProcessCompletionsLoop(s, n, max_completions)

\* the while (1) loop of nvme_pcie_qpair_process_completions; n is
\* num_completions, the result leaves it in s.rc
ProcessCompletionsLoop(s, n, max_completions) ==
    LET c == s.cpl[s.cq_head] IN
    IF s.fault THEN s
    ELSE IF c.p # s.phase THEN [s EXCEPT !.rc = n]
    ELSE
    LET t == c.cid
        s0 == Emit(s, [type |-> "consume", slot |-> s.cq_head,
                       phase |-> s.phase, cid |-> c.cid, stale |-> c.stale])
    IN  ProcessCompletionsNext(
            AdvanceCqHead(
                IF s0.tr[t].active
                THEN nvme_pcie_qpair_complete_tracker(s0, t, c, TRUE)
                ELSE InactiveTracker(s0, c)),
            n + 1, max_completions)

\* a faulty clamp: every call may consume a full batch, whatever max is
ClampIgnoresMax(s, max_completions) == s.num_entries - 1

\* the clamp of max_completions in nvme_pcie_qpair_process_completions
ClampMaxCompletions(s, max_completions) ==
    IF max_completions = 0 \/ max_completions > s.num_entries - 1
    THEN s.num_entries - 1
    ELSE max_completions

\* faulty doorbell writes: one that writes even when nothing was consumed,
\* one that writes the position before the entries just consumed
RingAlways(s, num_completions) ==
    Emit([s EXCEPT !.cq_hdbl = s.cq_head], [type |-> "cq_dbl", val |-> s.cq_head])
RingStale(s, num_completions) ==
    IF num_completions > 0
    THEN LET old == (s.cq_head + s.num_entries - num_completions) % s.num_entries
         IN  Emit([s EXCEPT !.cq_hdbl = old], [type |-> "cq_dbl", val |-> old])
    ELSE s

\* the write of the CQ head doorbell in nvme_pcie_qpair_process_completions
RingCqDoorbell(s, num_completions) ==
    IF num_completions > 0
    THEN Emit([s EXCEPT !.cq_hdbl = s.cq_head], [type |-> "cq_dbl", val |-> s.cq_head])
    ELSE s

\* the end of nvme_pcie_qpair_process_completions, from the state r the
\* loop left: the doorbell, then the admin queue's pending requests
ProcessCompletionsEnd(r) ==
    IF r.fault THEN r
    ELSE LET s2 == RingCqDoorbell(r, r.rc)
         IN  IF nvme_qpair_is_admin_queue(s2)
             THEN [nvme_pcie_qpair_complete_pending_admin_request(s2)
                      EXCEPT !.rc = r.rc]
             ELSE s2

\* nvme_pcie_qpair_process_completions from the state s1 its call of
\* nvme_pcie_qpair_check_enabled left
ProcessCompletionsChecked(s1, max_completions) ==
    IF s1.fault THEN s1
    ELSE IF ~s1.is_enabled THEN [s1 EXCEPT !.rc = 0]
    ELSE ProcessCompletionsEnd(
             ProcessCompletionsLoop(s1, 0, ClampMaxCompletions(s1, max_completions)))

\* nvme_pcie_qpair_process_completions; the return value is left in s.rc
nvme_pcie_qpair_process_completions(s, max_completions) ==
    ProcessCompletionsChecked(nvme_pcie_qpair_check_enabled(s), max_completions)

(***************************************************************************)
(* The state machine.                                                      *)
(***************************************************************************)

\* a faulty sizing rule: the I/O tracker count is not capped by N - 1
TrackersNotCapped(id, n) ==
    IF id = 0 THEN NVME_ADMIN_TRACKERS ELSE NVME_IO_TRACKERS

\* num_trackers of nvme_pcie_qpair_construct
NumTrackers(id, n) ==
    IF id = 0 THEN NVME_ADMIN_TRACKERS ELSE nvme_min(NVME_IO_TRACKERS, n - 1)

\* the free list nvme_pcie_qpair_construct builds: LIST_INSERT_HEAD of
\* tr[0], tr[1], ... leaves the last tracker at the head
ConstructFreeList(T) == [i \in 1..T |-> T - i]

\* nvme_pcie_qpair_construct of a zero-allocated queue pair with id `id` and
\* n entries
Construct(id, n, limits) ==
    /\ qid = id
    /\ num_entries = n
    /\ lim = limits
    /\ ctl_count = 0
    /\ err_count = 0
    /\ sq_tail = 0 /\ cq_head = 0 /\ phase = 1
    /\ is_enabled = FALSE
    /\ is_resetting = FALSE
    /\ free_tr = ConstructFreeList(NumTrackers(qid, num_entries))
    /\ outstanding_tr = <<>>
    /\ tr = [i \in 0..(NumTrackers(qid, num_entries) - 1) |->
                nvme_qpair_construct_tracker(i)]
    /\ cmd = [i \in 0..(num_entries - 1) |-> ZeroCmd]
    /\ cpl = [i \in 0..(num_entries - 1) |-> ZeroCpl]
    /\ queued_req = <<>>
    /\ sq_tdbl = 0 /\ cq_hdbl = 0
    /\ active_procs = Procs
    /\ active_reqs = [p \in Procs |-> <<>>]
    /\ dev_cq_tail = 0 /\ dev_phase = 1
    /\ dev_inflight = {}
    /\ dev_stale = {}
    /\ next_rid = 1
    /\ num_submitted = 0
    /\ num_completed = 0
    /\ consumed = 0
    /\ cb_count = [r \in 1..lim.reqs |-> 0]
    /\ free_count = [r \in 1..lim.reqs |-> 0]
    /\ op = [name |-> "construct", arg |-> 0, ret |-> 0]
    /\ ev = <<>>
    /\ fault = FALSE

\* no controller has been constructed, no construction call was made and no
\* payload was given to the PRP builder
NoCtrlr == [up |-> FALSE, cmb_mapped |-> FALSE, use_cmb_sqs |-> FALSE,
            cmb_current_offset |-> 0]
NoPrp == [size |-> 0, unaligned |-> 0, bad |-> 0, md |-> "none", built |-> FALSE,
          rc |-> 0, nseg |-> 0, prp1 |-> <<>>, prp2 |-> <<>>, prp2_list |-> FALSE,
          list |-> <<>>, segs |-> <<>>]
\* requests that are parked for the other process in one behaviour
MaxParked == 2
\* an empty pending list (STAILQ: first element, the element whose next field
\* stqh_last points to, 0 for the head itself), nobody holding the controller
\* lock, both processes outside the pending-list functions
NoPlist == [first |-> 0, last |-> 0, next |-> [r \in 1..MaxParked |-> 0],
            lock |-> "none", ipc |-> "idle", opc |-> "idle", elm |-> 0,
            parked |-> 0, req |-> 0, tmp |-> 0, nxt |-> 0,
            cb |-> [r \in 1..MaxParked |-> 0], crashed |-> FALSE]
\* no controller memory buffer is mapped
NoCmb == [sz |-> 0, szu |-> 0, ofst |-> 0, bir |-> 0, bar_size |-> 0,
          tried |-> FALSE, mapped |-> FALSE, cmb_size |-> 0,
          cmb_current_offset |-> 0, allocs |-> 0, rc |-> 0, offset |-> 0,
          length |-> 0, aligned |-> 0]
SideIdle ==
    /\ ctrlr = NoCtrlr /\ held = {} /\ pc = "idle" /\ calls = 0 /\ adm = <<>>
    /\ prp = NoPrp /\ plist = NoPlist /\ cmbreg = NoCmb

Init ==
    /\ SideIdle
    /\ \E id \in {0, 1} :
        Construct(id, IF id = 0 THEN NVME_ADMIN_ENTRIES ELSE NVME_IO_ENTRIES,
                  [reqs |-> IF id = 0 THEN MaxAdminReqs ELSE MaxReqs,
                   ctl |-> MaxCtl, errs |-> MaxErrs])

\* the processes that may call into a queue pair
Callers == IF qid = 0 THEN active_procs ELSE {IoOwner}

\* the state a transport operation leaves behind; an operation that
\* dereferenced NULL leaves nothing but the fault
Commit(r, name, arg) ==
    /\ op' = [name |-> name, arg |-> arg, ret |-> r.rc]
    /\ fault' = r.fault
    /\ IF r.fault
       THEN /\ ev' = <<>>
            /\ UNCHANGED <<qid, num_entries, sq_tail, cq_head, phase, is_enabled,
                           is_resetting, free_tr, outstanding_tr, tr, cmd, cpl,
                           queued_req, sq_tdbl, cq_hdbl, active_procs, active_reqs,
                           num_completed, consumed, cb_count, free_count,
                           dev_inflight>>
       ELSE /\ ev' = r.ev
            /\ qid' = r.qid /\ num_entries' = r.num_entries
            /\ sq_tail' = r.sq_tail /\ cq_head' = r.cq_head /\ phase' = r.phase
            /\ is_enabled' = r.is_enabled /\ is_resetting' = r.is_resetting
            /\ free_tr' = r.free_tr /\ outstanding_tr' = r.outstanding_tr
            /\ tr' = r.tr /\ cmd' = r.cmd /\ cpl' = r.cpl
            /\ queued_req' = r.queued_req
            /\ sq_tdbl' = r.sq_tdbl /\ cq_hdbl' = r.cq_hdbl
            /\ active_procs' = r.active_procs /\ active_reqs' = r.active_reqs
            /\ num_completed' = r.num_completed /\ consumed' = r.consumed
            /\ cb_count' = r.cb_count /\ free_count' = r.free_count
            /\ dev_inflight' = r.dev_inflight

\* a caller allocates a request and passes it to submit
Submit(p, k) ==
    /\ ~fault
    /\ UNCHANGED sidevars
    /\ UNCHANGED <<ctl_count, err_count, lim>>
    /\ next_rid <= lim.reqs
    /\ LET req == [rid |-> next_rid, opc |-> k.opc, pid |-> p,
                   payload |-> k.payload, retries |-> 0, cid |-> 0, cpl |-> ZeroCpl]
       IN  Commit(nvme_pcie_qpair_submit_request(State(p), req), "submit", next_rid)
    /\ next_rid' = next_rid + 1
    /\ num_submitted' = num_submitted + 1
    /\ UNCHANGED devvars

\* a caller polls for completions
Poll(p, max_completions) ==
    /\ ~fault
    /\ UNCHANGED sidevars
    /\ UNCHANGED <<ctl_count, err_count, lim>>
    /\ Commit(nvme_pcie_qpair_process_completions(State(p), max_completions),
              "poll", max_completions)
    /\ UNCHANGED <<devvars, next_rid, num_submitted>>

Enable(p) ==
    /\ ~fault
    /\ UNCHANGED sidevars
    /\ ctl_count < lim.ctl
    /\ ctl_count' = ctl_count + 1
    /\ UNCHANGED <<lim, err_count>>
    /\ Commit(nvme_pcie_qpair_enable(State(p)), "enable", 0)
    /\ UNCHANGED <<devvars, next_rid, num_submitted>>

Disable(p) ==
    /\ ~fault
    /\ UNCHANGED sidevars
    /\ ctl_count < lim.ctl
    /\ ctl_count' = ctl_count + 1
    /\ UNCHANGED <<lim, err_count>>
    /\ Commit(nvme_pcie_qpair_disable(State(p)), "disable", 0)
    /\ UNCHANGED <<devvars, next_rid, num_submitted>>

Fail(p) ==
    /\ ~fault
    /\ UNCHANGED sidevars
    /\ ctl_count < lim.ctl
    /\ ctl_count' = ctl_count + 1
    /\ UNCHANGED <<lim, err_count>>
    /\ Commit(nvme_pcie_qpair_fail(State(p)), "fail", 0)
    /\ UNCHANGED <<devvars, next_rid, num_submitted>>

\* nvme_pcie_qpair_reset, called while the controller is re-initialised: the
\* controller restarts its ring positions and doorbell registers with it, but
\* may still hold commands it fetched before
Reset(p) ==
    /\ ~fault
    /\ UNCHANGED sidevars
    /\ ctl_count < lim.ctl
    /\ ctl_count' = ctl_count + 1
    /\ UNCHANGED <<lim, err_count>>
    /\ LET r == nvme_pcie_qpair_reset(State(p))
       IN  Commit([r EXCEPT !.sq_tdbl = 0, !.cq_hdbl = 0], "reset", 0)
    /\ dev_cq_tail' = 0 /\ dev_phase' = 1
    /\ UNCHANGED <<next_rid, num_submitted, dev_stale>>

\* the controller layer starts or ends a controller reset
SetResetting(b) ==
    /\ ~fault
    /\ UNCHANGED sidevars
    /\ ctl_count < lim.ctl
    /\ ctl_count' = ctl_count + 1
    /\ UNCHANGED <<lim, err_count>>
    /\ is_resetting # b
    /\ is_resetting' = b
    /\ op' = [name |-> "set_resetting", arg |-> IF b THEN 1 ELSE 0, ret |-> 0]
    /\ ev' = <<>>
    /\ UNCHANGED <<qid, num_entries, sq_tail, cq_head, phase, is_enabled,
                   free_tr, outstanding_tr, tr, cmd, cpl, queued_req, sq_tdbl,
                   cq_hdbl, active_procs, active_reqs, num_completed, consumed,
                   cb_count, free_count, fault, dev_inflight, devvars, next_rid,
                   num_submitted>>

\* the device posts the completion of a command it holds, unless the
\* completion ring is full up to the CQ head doorbell
DevPost(c, st) ==
    /\ ~fault
    /\ UNCHANGED sidevars
    /\ UNCHANGED <<ctl_count, lim>>
    /\ err_count' = IF st.sc = "SUCCESS" THEN err_count ELSE err_count + 1
    /\ err_count' <= lim.errs
    /\ c \in dev_inflight
    /\ (dev_cq_tail + 1) % num_entries # cq_hdbl
    /\ cpl' = [cpl EXCEPT ![dev_cq_tail] =
                  [cid |-> c, sct |-> "GENERIC", sc |-> st.sc, dnr |-> st.dnr,
                   p |-> dev_phase, stale |-> FALSE]]
    /\ dev_inflight' = dev_inflight \ {c}
    /\ UNCHANGED dev_stale
    /\ dev_cq_tail' = (dev_cq_tail + 1) % num_entries
    /\ dev_phase' = IF dev_cq_tail + 1 = num_entries THEN 1 - dev_phase ELSE dev_phase
    /\ op' = [name |-> "dev_post", arg |-> c, ret |-> 0]
    /\ ev' = <<>>
    /\ UNCHANGED <<qid, num_entries, sq_tail, cq_head, phase, is_enabled,
                   is_resetting, free_tr, outstanding_tr, tr, cmd, queued_req,
                   sq_tdbl, cq_hdbl, active_procs, active_reqs, num_completed,
                   consumed, cb_count, free_count, fault, next_rid,
                   num_submitted>>

Next ==
    \/ \E p \in Callers : \E k \in (IF qid = 0 THEN AdminKinds ELSE IoKinds) :
           k.pid = p /\ Submit(p, k)
    \/ \E p \in Callers : \E m \in PollArgs : Poll(p, m)
    \/ Enable(Primary)
    \/ Disable(Primary)
    \/ Fail(Primary)
    \/ Reset(Primary)
    \/ \E b \in BOOLEAN : SetResetting(b)
    \/ \E c \in DOMAIN tr : \E st \in DevStatuses : DevPost(c, st)

Spec == Init /\ [][Next]_vars

\* an I/O queue of four entries, for the phase wrap
InitWrap ==
    /\ SideIdle
    /\ Construct(1, 4, [reqs |-> MaxReqs, ctl |-> 1, errs |-> MaxErrs + 1])
SpecWrap == InitWrap /\ [][Next]_vars

\* the calls a controller reset makes on a queue pair, in order: disable,
\* abort of the trackers with do-not-retry, from the state s0 in which the
\* reset starts
ResetDisableAbort(s0) ==
    nvme_pcie_qpair_abort_trackers(nvme_pcie_qpair_disable(s0), 1)
\* ... then the ring reset, with which the controller restarts its doorbell
\* registers and forgets nothing it has fetched, then enable; the reset is
\* over when enable returns
ResetRingsEnable(s2) ==
    [nvme_pcie_qpair_enable(
         [nvme_pcie_qpair_reset(s2) EXCEPT !.sq_tdbl = 0, !.cq_hdbl = 0,
                                           !.dev_inflight = {}])
        EXCEPT !.is_resetting = FALSE]

\* a controller reset, as cancellation performs it: disable, abort of the
\* trackers with do-not-retry, ring reset, enable; b says whether the
\* controller layer flags the controller as resetting while it runs.  The
\* commands the device holds when the rings are reset are the ones whose
\* completions may still arrive afterwards.
ControllerReset(p, b) ==
    /\ ~fault
    /\ UNCHANGED sidevars
    /\ ctl_count < lim.ctl
    /\ ctl_count' = ctl_count + 1
    /\ UNCHANGED <<lim, err_count>>
    /\ LET s2 == ResetDisableAbort([State(p) EXCEPT !.is_resetting = b])
       IN  /\ Commit(ResetRingsEnable(s2), "ctrlr_reset", IF b THEN 1 ELSE 0)
           /\ dev_stale' = dev_stale \cup s2.dev_inflight
    /\ dev_cq_tail' = 0 /\ dev_phase' = 1
    /\ UNCHANGED <<next_rid, num_submitted>>

\* the device posts the completion of a command it fetched before the
\* controller reset
DevPostStale(c, st) ==
    /\ ~fault
    /\ UNCHANGED sidevars
    /\ UNCHANGED <<ctl_count, lim>>
    /\ err_count' = IF st.sc = "SUCCESS" THEN err_count ELSE err_count + 1
    /\ err_count' <= lim.errs
    /\ c \in dev_stale
    /\ (dev_cq_tail + 1) % num_entries # cq_hdbl
    /\ cpl' = [cpl EXCEPT ![dev_cq_tail] =
                  [cid |-> c, sct |-> "GENERIC", sc |-> st.sc, dnr |-> st.dnr,
                   p |-> dev_phase, stale |-> TRUE]]
    /\ dev_stale' = dev_stale \ {c}
    /\ dev_cq_tail' = (dev_cq_tail + 1) % num_entries
    /\ dev_phase' = IF dev_cq_tail + 1 = num_entries THEN 1 - dev_phase ELSE dev_phase
    /\ op' = [name |-> "dev_post_stale", arg |-> c, ret |-> 0]
    /\ ev' = <<>>
    /\ UNCHANGED <<qid, num_entries, sq_tail, cq_head, phase, is_enabled,
                   is_resetting, free_tr, outstanding_tr, tr, cmd, queued_req,
                   sq_tdbl, cq_hdbl, active_procs, active_reqs, num_completed,
                   consumed, cb_count, free_count, fault, dev_inflight, next_rid,
                   num_submitted>>

\* an admin queue that is given one request more than it has trackers, and
\* one call of the controller layer
InitAdmin ==
    /\ SideIdle
    /\ Construct(0, NVME_ADMIN_ENTRIES,
                 [reqs |-> MaxAdminReqs + 1, ctl |-> 1, errs |-> 0])
SpecAdmin == InitAdmin /\ [][Next]_vars

\* submit and poll around one controller reset, with a device that may
\* complete commands from before the reset after it
NextReset ==
    \/ \E p \in Callers : \E k \in (IF qid = 0 THEN AdminKinds ELSE IoKinds) :
           k.pid = p /\ Submit(p, k)
    \/ \E p \in Callers : \E m \in PollArgs : Poll(p, m)
    \/ \E b \in BOOLEAN : ControllerReset(Primary, b)
    \/ \E c \in DOMAIN tr : \E st \in DevStatuses : DevPost(c, st)
    \/ \E c \in DOMAIN tr : \E st \in DevStatuses : DevPostStale(c, st)

InitReset ==
    /\ SideIdle
    /\ \E id \in {0, 1} :
        Construct(id, IF id = 0 THEN NVME_ADMIN_ENTRIES ELSE NVME_IO_ENTRIES,
                  [reqs |-> IF id = 0 THEN MaxAdminReqs ELSE MaxReqs,
                   ctl |-> 1, errs |-> MaxErrs])
SpecReset == InitReset /\ [][NextReset]_vars

(***************************************************************************)
(* Construction of the transport controller and of I/O queue pairs.        *)
(* `held` is the set of allocations and mappings that exist, each tagged   *)
(* with the construction call that made it; `adm` is what the current or   *)
(* last construction call did.                                             *)
(***************************************************************************)

\* construction calls in one behaviour
MaxCalls == 3
\* the controller memory buffer, in submission rings it has room for
CmbSize == 1

\* the step of nvme_pcie_qpair_construct whose spdk_zmalloc returns NULL
RingFailures == {"none", "cmd", "cpl", "tr"}
\* the step of nvme_pcie_ctrlr_construct that fails
CtrlrFailures == {"none", "pctrlr", "bar0", "cap", "ctrlr_construct", "pqpair",
                  "add_process"}
\* what nvme_pcie_ctrlr_map_cmb finds: no buffer (or its BAR cannot be
\* mapped), a buffer that may or may not hold submission queues, or a buffer
\* whose offset or size does not fit its BAR
CmbKinds == {"none", "sqs", "nosqs", "bad_range"}
\* return values of the admin command helpers: submitted, or -ENOMEM
SubmitRcs == {0, -12}

Alloc(c, what, k) == [c EXCEPT !.held = @ \cup {[what |-> what, by |-> k]}]
Release(c, what, k) == [c EXCEPT !.held = @ \ {[what |-> what, by |-> k]}]
Log(c, e) == [c EXCEPT !.adm = Append(@, e)]

\* nvme_pcie_ctrlr_alloc_cmb for one submission ring: 0, or -1 when the
\* buffer has no room
nvme_pcie_ctrlr_alloc_cmb(c) ==
    IF c.ctrlr.cmb_current_offset + 1 > (IF c.ctrlr.cmb_mapped THEN CmbSize ELSE 0)
    THEN [c EXCEPT !.rc = -1]
    ELSE [c EXCEPT !.rc = 0, !.ctrlr.cmb_current_offset = @ + 1]

\* nvme_pcie_qpair_construct for construction call k; fail_at names the
\* spdk_zmalloc that returns NULL
QpairConstructTrackers(c, k, fail_at) ==
    IF fail_at = "tr"
    THEN [c EXCEPT !.rc = -12]
    ELSE [Log(Alloc(c, "tr", k), [e |-> "reset", by |-> "construct"]) EXCEPT !.rc = 0]
QpairConstructCpl(c, k, fail_at) ==
    IF fail_at = "cpl"
    THEN [c EXCEPT !.rc = -12]
    ELSE QpairConstructTrackers(Alloc(c, "cpl", k), k, fail_at)
QpairConstructCmdHost(c, k, fail_at) ==
    IF fail_at = "cmd"
    THEN [c EXCEPT !.rc = -12]
    ELSE QpairConstructCpl(Alloc(c, "cmd", k), k, fail_at)
QpairConstructCmb(c, c1, k, fail_at) ==
    IF c1.rc = 0
    THEN QpairConstructCpl(Alloc(c1, "cmb_sq", k), k, fail_at)
    ELSE QpairConstructCmdHost(c, k, fail_at)
nvme_pcie_qpair_construct(c, k, fail_at) ==
    IF c.ctrlr.use_cmb_sqs
    THEN QpairConstructCmb(c, nvme_pcie_ctrlr_alloc_cmb(c), k, fail_at)
    ELSE QpairConstructCmdHost(c, k, fail_at)

\* nvme_pcie_qpair_destroy: frees the rings that were allocated from host
\* memory and the tracker array
nvme_pcie_qpair_destroy(c, k) ==
    Release(Release(Release(c, "cmd", k), "cpl", k), "tr", k)

\* nvme_qpair_construct of the generic layer: it runs the transport's
\* construct and, as the spec has it, unwinds when that fails
QpairConstructResult(c1, k) ==
    IF c1.rc # 0 THEN [nvme_pcie_qpair_destroy(c1, k) EXCEPT !.rc = c1.rc] ELSE c1
nvme_qpair_construct(c, k, fail_at) ==
    QpairConstructResult(nvme_pcie_qpair_construct(c, k, fail_at), k)

\* nvme_pcie_ctrlr_map_cmb
nvme_pcie_ctrlr_map_cmb(c, k, cmb) ==
    IF cmb = "none"
    THEN [c EXCEPT !.ctrlr.cmb_mapped = FALSE, !.ctrlr.use_cmb_sqs = FALSE]
    ELSE IF cmb = "bad_range"
    THEN [Alloc(c, "cmb_bar", k) EXCEPT !.ctrlr.cmb_mapped = FALSE,
                                        !.ctrlr.use_cmb_sqs = FALSE]
    ELSE [Alloc(c, "cmb_bar", k) EXCEPT !.ctrlr.cmb_mapped = TRUE,
                                        !.ctrlr.use_cmb_sqs = (cmb = "sqs"),
                                        !.ctrlr.cmb_current_offset = 0]

\* nvme_pcie_ctrlr_free_bars, with nvme_pcie_ctrlr_unmap_cmb
nvme_pcie_ctrlr_unmap_cmb(c, k) ==
    IF c.ctrlr.cmb_mapped THEN Release(c, "cmb_bar", k) ELSE c
nvme_pcie_ctrlr_free_bars(c, k) ==
    Release(nvme_pcie_ctrlr_unmap_cmb(c, k), "bar0", k)

\* nvme_pcie_ctrlr_destruct, which nvme_ctrlr_destruct of the generic layer
\* calls
DestructAdminq(c, k) ==
    IF [what |-> "admin_pqpair", by |-> k] \in c.held
    THEN Release(nvme_pcie_qpair_destroy(c, k), "admin_pqpair", k)
    ELSE c
nvme_pcie_ctrlr_destruct(c, k) ==
    [Release(nvme_pcie_ctrlr_free_bars(DestructAdminq(c, k), k), "pctrlr", k)
        EXCEPT !.ctrlr = NoCtrlr]

\* nvme_pcie_ctrlr_construct, step by step; every step returns NULL (rc -1)
\* or goes on
CtrlrConstructProcess(c, k, in) ==
    IF in.fail = "add_process"
    THEN [nvme_pcie_ctrlr_destruct(c, k) EXCEPT !.rc = -1]
    ELSE [c EXCEPT !.rc = 0, !.ctrlr.up = TRUE]
CtrlrConstructAdminqRings(c1, k, in) ==
    IF c1.rc # 0
    THEN [nvme_pcie_ctrlr_destruct(c1, k) EXCEPT !.rc = -1]
    ELSE CtrlrConstructProcess(c1, k, in)
nvme_pcie_ctrlr_construct_admin_qpair(c, k, in) ==
    IF in.fail = "pqpair"
    THEN [c EXCEPT !.rc = -12]
    ELSE nvme_qpair_construct(Alloc(c, "admin_pqpair", k), k, in.ring)
CtrlrConstructGeneric(c, k, in) ==
    IF in.fail = "ctrlr_construct"
    THEN [nvme_pcie_ctrlr_destruct(c, k) EXCEPT !.rc = -1]
    ELSE CtrlrConstructAdminqRings(nvme_pcie_ctrlr_construct_admin_qpair(c, k, in),
                                   k, in)
CtrlrConstructCap(c, k, in) ==
    IF in.fail = "cap"
    THEN [Release(c, "pctrlr", k) EXCEPT !.rc = -1, !.ctrlr = NoCtrlr]
    ELSE CtrlrConstructGeneric(c, k, in)
nvme_pcie_ctrlr_allocate_bars(c, k, in) ==
    IF in.fail = "bar0"
    THEN [c EXCEPT !.rc = -1]
    ELSE [nvme_pcie_ctrlr_map_cmb(Alloc(c, "bar0", k), k, in.cmb) EXCEPT !.rc = 0]
CtrlrConstructBars(c1, k, in) ==
    IF c1.rc # 0
    THEN [Release(c1, "pctrlr", k) EXCEPT !.rc = -1]
    ELSE CtrlrConstructCap(c1, k, in)
nvme_pcie_ctrlr_construct(c, k, in) ==
    IF in.fail = "pctrlr"
    THEN [c EXCEPT !.rc = -1]
    ELSE CtrlrConstructBars(nvme_pcie_ctrlr_allocate_bars(Alloc(c, "pctrlr", k), k, in),
                            k, in)

\* the construction state a call starts from and the one it leaves
CallState == [ctrlr |-> ctrlr, held |-> held, adm |-> <<>>, rc |-> 0]
Returned(c) == Log(c, [e |-> "return", rc |-> c.rc])
CommitCall(c, next_pc) ==
    /\ ctrlr' = c.ctrlr
    /\ held' = c.held
    /\ adm' = c.adm
    /\ pc' = next_pc
    /\ UNCHANGED <<qpvars, prp, plist, cmbreg>>

CtrlrInputs == [fail : CtrlrFailures, cmb : CmbKinds, ring : RingFailures]

\* a call of nvme_pcie_ctrlr_construct
CtrlrConstruct(in) ==
    /\ pc = "idle" /\ ~ctrlr.up /\ calls < MaxCalls
    /\ calls' = calls + 1
    /\ CommitCall(Returned(nvme_pcie_ctrlr_construct(CallState, calls + 1, in)), "idle")

\* the return of _nvme_pcie_ctrlr_create_io_qpair into
\* nvme_pcie_ctrlr_create_io_qpair, and the return of that
CreateIoQpairReturn(c, k) ==
    IF c.rc # 0
    THEN Returned([Release(c, "pqpair", k) EXCEPT !.rc = -1])
    ELSE Returned(c)

\* one admin command helper (nvme_pcie_ctrlr_cmd_create_io_cq and the like):
\* it returns rc, and the command is on its way when rc is 0
AdminCmd(c, opc, rc) ==
    [Log(c, [e |-> IF rc = 0 THEN "issue" ELSE "nosubmit", opc |-> opc])
        EXCEPT !.rc = rc]
\* the polling loop has seen the command's completion
AdminDone(c, opc, err) == Log(c, [e |-> "done", opc |-> opc, err |-> err])

\* _nvme_pcie_ctrlr_create_io_qpair up to its first wait
CreateIssueCq(c, rc) == AdminCmd(c, "CREATE_IO_CQ", rc)
\* from the Create I/O CQ completion to the next wait or the return
CreateAfterCq(c, err, rc) ==
    IF err
    THEN [AdminDone(c, "CREATE_IO_CQ", err) EXCEPT !.rc = -1]
    ELSE AdminCmd(AdminDone(c, "CREATE_IO_CQ", err), "CREATE_IO_SQ", rc)
\* from the Create I/O SQ completion to the next wait or the return
CreateDeleteCq(c1) ==
    IF c1.rc # 0 THEN [c1 EXCEPT !.rc = -1] ELSE c1
CreateAfterSq(c, err, rc) ==
    IF err
    THEN CreateDeleteCq(AdminCmd(AdminDone(c, "CREATE_IO_SQ", err), "DELETE_IO_CQ", rc))
    ELSE [Log(AdminDone(c, "CREATE_IO_SQ", err), [e |-> "reset", by |-> "create"])
            EXCEPT !.rc = 0]
\* from the Delete I/O CQ completion to the return
CreateAfterDelete(c, err) ==
    [AdminDone(c, "DELETE_IO_CQ", err) EXCEPT !.rc = -1]

\* the last thing the call did was to send an admin command
Waiting(c) == c.adm[Len(c.adm)].e = "issue"

\* the call goes on waiting for the command it has issued, or returns
CreateStep(c, k, wait_pc) ==
    IF Waiting(c)
    THEN CommitCall(c, wait_pc)
    ELSE CommitCall(CreateIoQpairReturn(c, k), "idle")

\* nvme_pcie_ctrlr_create_io_qpair up to its first wait
CreateIoQpairConstructed(c1, k, rc) ==
    IF c1.rc # 0
    THEN CommitCall(Returned([Release(c1, "pqpair", k) EXCEPT !.rc = -1]), "idle")
    ELSE CreateStep(CreateIssueCq(c1, rc), k, "cq_wait")
CreateIoQpair(calloc_fails, fail_at, rc) ==
    /\ pc = "idle" /\ ctrlr.up /\ calls < MaxCalls
    /\ calls' = calls + 1
    /\ IF calloc_fails
       THEN CommitCall(Returned([CallState EXCEPT !.rc = -1]), "idle")
       ELSE CreateIoQpairConstructed(
                nvme_qpair_construct(Alloc(CallState, "pqpair", calls + 1),
                                     calls + 1, fail_at),
                calls + 1, rc)

\* the construction state of the call in progress
InCall == [ctrlr |-> ctrlr, held |-> held, adm |-> adm, rc |-> 0]

\* the admin queue delivers the completion of Create I/O CQ
AwaitCreateCq(err, rc) ==
    /\ pc = "cq_wait"
    /\ UNCHANGED calls
    /\ CreateStep(CreateAfterCq(InCall, err, rc), calls, "sq_wait")
\* the admin queue delivers the completion of Create I/O SQ
AwaitCreateSq(err, rc) ==
    /\ pc = "sq_wait"
    /\ UNCHANGED calls
    /\ CreateStep(CreateAfterSq(InCall, err, rc), calls, "del_wait")
\* the admin queue delivers the completion of Delete I/O CQ
AwaitDeleteCq(err) ==
    /\ pc = "del_wait"
    /\ UNCHANGED calls
    /\ CommitCall(CreateIoQpairReturn(CreateAfterDelete(InCall, err), calls), "idle")

NextCreate ==
    \/ \E in \in CtrlrInputs : CtrlrConstruct(in)
    \/ \E f \in BOOLEAN : \E r \in RingFailures : \E rc \in SubmitRcs :
           CreateIoQpair(f, r, rc)
    \/ \E err \in BOOLEAN : \E rc \in SubmitRcs : AwaitCreateCq(err, rc)
    \/ \E err \in BOOLEAN : \E rc \in SubmitRcs : AwaitCreateSq(err, rc)
    \/ \E err \in BOOLEAN : AwaitDeleteCq(err)

InitCreate ==
    /\ SideIdle
    /\ Construct(0, NVME_ADMIN_ENTRIES,
                 [reqs |-> MaxAdminReqs, ctl |-> MaxCtl, errs |-> MaxErrs])
SpecCreate == InitCreate /\ [][NextCreate]_vars

(***************************************************************************)
(* The PRP builder for a contiguous payload.                               *)
(***************************************************************************)

\* log2 of the page size, and the entries of a tracker's PRP list
PageShift == 2
NVME_MAX_PRP_LIST_ENTRIES == 3
PAGE_SIZE == 2 ^ PageShift
NVME_MAX_XFER_SIZE == NVME_MAX_PRP_LIST_ENTRIES * PAGE_SIZE

\* the page frame behind each page of the payload's buffer: the pages of a
\* virtually contiguous buffer are scattered in physical memory
Frame(vpage) == 2 * vpage + 1
\* spdk_vtophys: the physical address of a virtual address, or
\* SPDK_VTOPHYS_ERROR (-1) in the page numbered bad, counting from 1
spdk_vtophys(vaddr, bad) ==
    IF (vaddr \div PAGE_SIZE) + 1 = bad
    THEN -1
    ELSE (Frame(vaddr \div PAGE_SIZE) * PAGE_SIZE) + (vaddr % PAGE_SIZE)

\* nseg as a builder that forgets the pages the offset adds
ContigNsegNoCarry(payload_size, phys_addr) ==
    IF payload_size % PAGE_SIZE # 0 \/ phys_addr % PAGE_SIZE # 0
    THEN (payload_size \div PAGE_SIZE) + 1
    ELSE payload_size \div PAGE_SIZE

\* the number of pages the payload touches, as the builder computes it
ContigNsegUnaligned(nseg, modulo, unaligned) ==
    IF modulo # 0 \/ unaligned # 0
    THEN nseg + 1 + (((modulo + unaligned) - 1) \div PAGE_SIZE)
    ELSE nseg
ContigNseg(payload_size, phys_addr) ==
    ContigNsegUnaligned(payload_size \div PAGE_SIZE, payload_size % PAGE_SIZE,
                        phys_addr % PAGE_SIZE)

\* the loop that fills the tracker's PRP list
RECURSIVE ContigPrpList(_, _, _, _)
ContigPrpListEntry(b, payload, cur_nseg, phys_addr) ==
    IF phys_addr = -1
    THEN [b EXCEPT !.rc = -1]
    ELSE ContigPrpList([b EXCEPT !.list = Append(@, phys_addr)], payload,
                       cur_nseg + 1, phys_addr)
ContigPrpList(b, payload, cur_nseg, last) ==
    IF cur_nseg < b.nseg
    THEN ContigPrpListEntry(b, payload, cur_nseg,
             spdk_vtophys((payload + (cur_nseg * PAGE_SIZE)) - b.unaligned, b.bad))
    ELSE b

\* the builder as one that takes the second page's address without going
\* back to the start of the page
ContigPrpsKeepOffset(b, payload, phys_addr) ==
    IF b.nseg = 2
    THEN [b EXCEPT !.prp1 = <<phys_addr>>,
                   !.prp2 = <<spdk_vtophys(payload + PAGE_SIZE, b.bad)>>]
    ELSE IF b.nseg > 2
    THEN ContigPrpList([b EXCEPT !.prp1 = <<phys_addr>>, !.prp2_list = TRUE],
                       payload, 1, phys_addr)
    ELSE [b EXCEPT !.prp1 = <<phys_addr>>]

\* nvme_pcie_qpair_build_contig_request from the write of prp1 on
ContigPrps(b, payload, phys_addr) ==
    IF b.nseg = 2
    THEN [b EXCEPT !.prp1 = <<phys_addr>>,
                   !.prp2 = <<spdk_vtophys((payload + PAGE_SIZE) - b.unaligned, b.bad)>>]
    ELSE IF b.nseg > 2
    THEN ContigPrpList([b EXCEPT !.prp1 = <<phys_addr>>, !.prp2_list = TRUE],
                       payload, 1, phys_addr)
    ELSE [b EXCEPT !.prp1 = <<phys_addr>>]
ContigTranslated(b, payload, phys_addr) ==
    IF phys_addr = -1 THEN [b EXCEPT !.rc = -1]
    ELSE IF b.md = "bad"
    THEN [b EXCEPT !.rc = -1, !.nseg = ContigNseg(b.size, phys_addr)]
    ELSE ContigPrps([b EXCEPT !.nseg = ContigNseg(b.size, phys_addr)],
                    payload, phys_addr)
\* nvme_pcie_qpair_build_contig_request for the payload that starts at
\* offset b.unaligned of its first page
nvme_pcie_qpair_build_contig_request(b) ==
    ContigTranslated([b EXCEPT !.built = TRUE], b.unaligned,
                     spdk_vtophys(b.unaligned, b.bad))

\* the payloads: size, offset in the first page, the page that does not
\* translate (0: none), the metadata buffer
PrpInputs ==
    {[NoPrp EXCEPT !.size = s, !.unaligned = u, !.bad = x, !.md = m] :
        s \in 1..NVME_MAX_XFER_SIZE, u \in 0..(PAGE_SIZE - 1),
        x \in 0..(NVME_MAX_PRP_LIST_ENTRIES + 1), m \in {"none", "good", "bad"}}

BuildContig ==
    /\ ~prp.built
    /\ prp' = nvme_pcie_qpair_build_contig_request(prp)
    /\ UNCHANGED <<qpvars, ctrlr, held, pc, calls, adm, plist, cmbreg>>

NextPrp == BuildContig

InitPrp ==
    /\ ctrlr = NoCtrlr /\ held = {} /\ pc = "idle" /\ calls = 0 /\ adm = <<>>
    /\ plist = NoPlist /\ cmbreg = NoCmb
    /\ prp \in PrpInputs
    /\ Construct(1, NVME_IO_ENTRIES, [reqs |-> MaxReqs, ctl |-> MaxCtl, errs |-> MaxErrs])
SpecPrp == InitPrp /\ [][NextPrp]_vars



(***************************************************************************)
(* The PRP builder for a scattered payload.                                *)
(***************************************************************************)

\* segments of a scattered payload, and log2 of the alignment every segment
\* must start on (2 in the driver: phys_addr & 0x3)
MaxSegs == 3
SgeAlignShift == 1

\* tr->u.prp[idx] = val
SglSetPrp(b, idx, val) == [b EXCEPT !.list[idx + 1] = val]
\* the inner loop: the pages cur_nseg .. nseg-1 of the segment go into the
\* tracker's list, behind the prp2 saved earlier if there is one
RECURSIVE SglListLoop(_, _, _, _)
SglListLoop(b, phys_addr, cur_nseg, nseg) ==
    IF cur_nseg < nseg
    THEN SglListLoop(
             [(IF b.saved_prp2 # 0
               THEN SglSetPrp(SglSetPrp(b, 0, b.saved_prp2), b.last_nseg + 1,
                              phys_addr + (cur_nseg * PAGE_SIZE))
               ELSE SglSetPrp(b, b.last_nseg, phys_addr + (cur_nseg * PAGE_SIZE)))
                 EXCEPT !.last_nseg = @ + 1],
             phys_addr, cur_nseg + 1, nseg)
    ELSE b
\* the branch on total_nseg after a segment was counted
SglPrp2(b, phys_addr, nseg) ==
    IF b.nseg = 2
    THEN IF b.sge_count = 1
         THEN [b EXCEPT !.prp2 = <<phys_addr + PAGE_SIZE>>,
                        !.saved_prp2 = phys_addr + PAGE_SIZE]
         ELSE IF b.sge_count = 2
         THEN [b EXCEPT !.prp2 = <<phys_addr>>, !.saved_prp2 = phys_addr]
         ELSE [b EXCEPT !.saved_prp2 = IF b.prp2 = <<>> THEN 0 ELSE b.prp2[1]]
    ELSE IF b.nseg > 2
    THEN SglListLoop([b EXCEPT !.prp2 = <<>>, !.prp2_list = TRUE], phys_addr,
                     IF b.sge_count = 1 THEN 1 ELSE 0, nseg)
    ELSE b
\* one segment that passed the checks: count its pages, set prp1 on the
\* first one
SglCount(b, phys_addr, data_transferred, nseg) ==
    SglPrp2([(IF b.nseg = 0 THEN [b EXCEPT !.prp1 = <<phys_addr>>] ELSE b)
                EXCEPT !.nseg = @ + nseg, !.sge_count = @ + 1,
                       !.remaining = @ - data_transferred],
            IF b.nseg = 0 THEN phys_addr - (phys_addr % PAGE_SIZE) ELSE phys_addr,
            nseg)
\* "this sge is prp compatible"
SglCompatible(remaining, phys_addr, length) ==
    ~(\/ phys_addr % (2 ^ SgeAlignShift) # 0
      \/ (length < remaining /\ (phys_addr + length) % PAGE_SIZE # 0))
\* the outer loop of nvme_pcie_qpair_build_prps_sgl_request: next_sge_fn
\* hands out b.segs in order and fails when it has no more
RECURSIVE SglLoop(_)
SglSegment(b, phys_addr, length) ==
    IF phys_addr = -1 \/ ~SglCompatible(b.remaining, phys_addr, length)
    THEN [b EXCEPT !.rc = -1]
    ELSE SglLoop(SglCount(b, phys_addr, nvme_min(b.remaining, length),
                          ContigNseg(nvme_min(b.remaining, length), phys_addr)))
SglLoop(b) ==
    IF b.remaining > 0
    THEN IF b.sge_count >= Len(b.segs)
         THEN [b EXCEPT !.rc = -1]
         ELSE SglSegment(b, spdk_vtophys(b.segs[b.sge_count + 1].addr, b.bad),
                         b.segs[b.sge_count + 1].len)
    ELSE b
nvme_pcie_qpair_build_prps_sgl_request(b) ==
    [k \in {"size", "unaligned", "bad", "md", "built", "rc", "nseg", "prp1", "prp2",
            "prp2_list", "list", "segs"} |->
        SglLoop([size |-> b.size, unaligned |-> b.unaligned, bad |-> b.bad,
                 md |-> b.md, built |-> TRUE, rc |-> 0, nseg |-> 0, prp1 |-> <<>>,
                 prp2 |-> <<>>, prp2_list |-> FALSE,
                 list |-> [i \in 1..NVME_MAX_XFER_SIZE |-> 0], segs |-> b.segs,
                 remaining |-> b.size, sge_count |-> 0, last_nseg |-> 0,
                 saved_prp2 |-> 0])[k]]

\* a segment list: segment i lies in its own physically contiguous buffer,
\* at some offset of the buffer's first page
RECURSIVE SglSum(_)
SglSum(segs) == IF segs = <<>> THEN 0 ELSE Head(segs).len + SglSum(Tail(segs))
SglInputs ==
    {[NoPrp EXCEPT !.size = SglSum(segs), !.segs = segs] :
        segs \in {g \in UNION {[1..n -> [addr : 0..(PAGE_SIZE - 1),
                                         len : 1..(2 * PAGE_SIZE)]] :
                               n \in 1..MaxSegs} :
                     SglSum(g) <= NVME_MAX_XFER_SIZE}}
\* the buffer of segment i starts at virtual page 2 * (i - 1)
SglPlaced(b) ==
    [b EXCEPT !.segs = [i \in DOMAIN b.segs |->
                           [b.segs[i] EXCEPT !.addr = @ + (2 * (i - 1) * PAGE_SIZE)]]]

BuildSgl ==
    /\ ~prp.built
    /\ prp' = nvme_pcie_qpair_build_prps_sgl_request(prp)
    /\ UNCHANGED <<qpvars, ctrlr, held, pc, calls, adm, plist, cmbreg>>

InitSgl ==
    /\ ctrlr = NoCtrlr /\ held = {} /\ pc = "idle" /\ calls = 0 /\ adm = <<>>
    /\ plist = NoPlist /\ cmbreg = NoCmb
    /\ prp \in {SglPlaced(b) : b \in SglInputs}
    /\ Construct(1, NVME_IO_ENTRIES, [reqs |-> MaxReqs, ctl |-> MaxCtl, errs |-> MaxErrs])
SpecSgl == InitSgl /\ [][BuildSgl]_vars

(***************************************************************************)
(* The pending admin list of one process, with two processes at it: the    *)
(* process that polls the admin queue parks completions for the owner of   *)
(* the list, and the owner drains the list at the end of its own poll.     *)
(* Each step is one access to the shared list or to the controller lock;   *)
(* nothing but the two functions takes the lock.                            *)
(***************************************************************************)

\* the elements reachable from x along the next fields, at most n of them
RECURSIVE ListFrom(_, _, _)
ListFrom(l, x, n) ==
    IF x = 0 \/ n = 0 THEN {} ELSE {x} \cup ListFrom(l, l.next[x], n - 1)
OnList(l) == ListFrom(l, l.first, MaxParked)

\* nvme_pcie_qpair_insert_pending_admin_request in the polling process: lock,
\* find the owner, STAILQ_INSERT_TAIL (elm->next = NULL; *stqh_last = elm;
\* stqh_last = &elm->next), unlock
InsertPendingStep(l) ==
    CASE l.ipc = "idle" ->
             [l EXCEPT !.lock = "ins", !.elm = l.parked + 1,
                       !.parked = l.parked + 1, !.ipc = "found"]
      [] l.ipc = "found" ->
             [l EXCEPT !.next[l.elm] = 0, !.ipc = "link"]
      [] l.ipc = "link" ->
             IF l.last = 0
             THEN [l EXCEPT !.first = l.elm, !.ipc = "settail"]
             ELSE [l EXCEPT !.next[l.last] = l.elm, !.ipc = "settail"]
      [] l.ipc = "settail" ->
             [l EXCEPT !.last = l.elm, !.ipc = "unlock"]
      [] l.ipc = "unlock" ->
             [l EXCEPT !.lock = "none", !.elm = 0, !.ipc = "idle"]

\* STAILQ_REMOVE of an element that is not the first: walk to its
\* predecessor and unlink it; the walk runs off the list when the element is
\* not on it
RemoveAfter(l) ==
    LET pred == {c \in OnList(l) : l.next[c] = l.req}
    IN  IF pred = {}
        THEN [l EXCEPT !.crashed = TRUE]
        ELSE LET c == CHOOSE c \in pred : TRUE
             IN  [l EXCEPT !.next[c] = l.next[l.req],
                           !.last = IF l.next[l.req] = 0 THEN c ELSE l.last,
                           !.opc = "cb"]

\* nvme_pcie_qpair_complete_pending_admin_request in the owner: lock, find its
\* own entry, unlock; then STAILQ_FOREACH_SAFE over the list with
\* STAILQ_REMOVE (for the head: first = first->next; if that is NULL,
\* stqh_last = &first), the callback and nvme_free_request for each element
CompletePendingStep(l) ==
    CASE l.opc = "idle" ->
             [l EXCEPT !.lock = "own", !.opc = "lookup"]
      [] l.opc = "lookup" ->
             [l EXCEPT !.lock = "none", !.opc = "first"]
      [] l.opc = "first" ->
             IF l.first = 0
             THEN [l EXCEPT !.req = 0, !.tmp = 0, !.opc = "idle"]
             ELSE [l EXCEPT !.req = l.first, !.opc = "tnext"]
      [] l.opc = "tnext" ->
             [l EXCEPT !.tmp = l.next[l.req], !.opc = "rm_cmp"]
      [] l.opc = "rm_cmp" ->
             IF l.first = l.req THEN [l EXCEPT !.opc = "rm_read"] ELSE RemoveAfter(l)
      [] l.opc = "rm_read" ->
             IF l.first = 0
             THEN [l EXCEPT !.crashed = TRUE]
             ELSE [l EXCEPT !.nxt = l.next[l.first], !.opc = "rm_write"]
      [] l.opc = "rm_write" ->
             [l EXCEPT !.first = l.nxt,
                       !.opc = IF l.nxt = 0 THEN "rm_last" ELSE "cb"]
      [] l.opc = "rm_last" ->
             [l EXCEPT !.last = 0, !.opc = "cb"]
      [] l.opc = "cb" ->
             [l EXCEPT !.cb[l.req] = @ + 1, !.opc = "adv"]
      [] l.opc = "adv" ->
             IF l.tmp = 0
             THEN [l EXCEPT !.req = 0, !.nxt = 0, !.opc = "idle"]
             ELSE [l EXCEPT !.req = l.tmp, !.nxt = 0, !.opc = "tnext"]

\* a step of the polling process in insert_pending; pthread_mutex_lock waits
\* while the owner holds the lock
InsertPending ==
    /\ ~plist.crashed
    /\ plist.ipc = "idle" => (plist.parked < MaxParked /\ plist.lock = "none")
    /\ plist' = InsertPendingStep(plist)
    /\ UNCHANGED <<qpvars, ctrlr, held, pc, calls, adm, prp, cmbreg>>

\* a step of the owner in complete_pending
CompletePending ==
    /\ ~plist.crashed
    /\ plist.opc = "idle" => plist.lock = "none"
    /\ plist' = CompletePendingStep(plist)
    /\ UNCHANGED <<qpvars, ctrlr, held, pc, calls, adm, prp, cmbreg>>

NextPending == InsertPending \/ CompletePending

InitPending ==
    /\ SideIdle
    /\ Construct(0, NVME_ADMIN_ENTRIES,
                 [reqs |-> MaxAdminReqs, ctl |-> MaxCtl, errs |-> MaxErrs])
SpecPending == InitPending /\ [][NextPending]_vars

(***************************************************************************)
(* The queue pair with a process that leaves the controller.               *)
(***************************************************************************)

\* the controller layer takes a process that has nothing parked off the
\* registry of active processes; requests it submitted may still be
\* outstanding
RemoveProcess(p) ==
    /\ ~fault
    /\ UNCHANGED sidevars
    /\ qid = 0
    /\ p \in active_procs /\ p # Primary
    /\ active_reqs[p] = <<>>
    /\ active_procs' = active_procs \ {p}
    /\ op' = [name |-> "remove_process", arg |-> 0, ret |-> 0]
    /\ ev' = <<>>
    /\ UNCHANGED <<qid, num_entries, sq_tail, cq_head, phase, is_enabled,
                   is_resetting, free_tr, outstanding_tr, tr, cmd, cpl,
                   queued_req, sq_tdbl, cq_hdbl, active_reqs, num_completed,
                   consumed, cb_count, free_count, fault, dev_inflight, devvars,
                   next_rid, num_submitted, ctl_count, err_count, lim>>

NextDetach ==
    \/ Next
    \/ \E p \in Procs : RemoveProcess(p)

SpecDetach == Init /\ [][NextDetach]_vars

(***************************************************************************)
(* The controller memory buffer: mapping and the bump allocator, in bytes. *)
(***************************************************************************)

\* width of the 64-bit quantities of the allocator, log2 of the smallest
\* size unit (12 in the controller's registers) and the step of the unit
\* exponent per CMBSZ.SZU (4 in the registers)
CmbWord == 8
CmbUnitShift == 1
CmbSzuStep == 1
\* largest CMBSZ.SZ, CMBSZ.SZU and CMBLOC.OFST the controller reports, and
\* allocations made in one behaviour
MaxCmbSz == 2
MaxCmbSzu == 1
MaxCmbOfst == 2
MaxAllocs == 2

CmbWrap(x) == x % (2 ^ CmbWord)
\* CMBSZ and CMBLOC as the controller reports them, and the size of the BAR
\* that spdk_pci_device_map_bar returns (0: the BAR cannot be mapped)
CmbRegisters ==
    [sz : 0..MaxCmbSz, szu : 0..MaxCmbSzu, ofst : 0..MaxCmbOfst, bir : {0, 1},
     bar_size : {0, 2 ^ (CmbUnitShift + 2), 2 ^ (CmbUnitShift + 3)}]

CmbUnitSize(g) == 2 ^ (CmbUnitShift + CmbSzuStep * g.szu)
\* nvme_pcie_ctrlr_map_cmb with the registers g: the exit path leaves the
\* buffer unmapped
MapCmbAccepted(g) ==
    /\ g.sz # 0
    /\ ~(g.bir > 5 \/ g.bir = 1)
    /\ g.bar_size # 0
    /\ ~(CmbWrap(CmbUnitSize(g) * g.ofst) > g.bar_size)
    /\ ~(CmbWrap(CmbUnitSize(g) * g.sz) >
             CmbWrap(g.bar_size - CmbWrap(CmbUnitSize(g) * g.ofst)))
MapCmb(r, g) ==
    LET in == [r EXCEPT !.sz = g.sz, !.szu = g.szu, !.ofst = g.ofst,
                        !.bir = g.bir, !.bar_size = g.bar_size, !.tried = TRUE]
    IN  IF MapCmbAccepted(g)
        THEN [in EXCEPT !.mapped = TRUE,
                        !.cmb_size = CmbWrap(CmbUnitSize(g) * g.sz),
                        !.cmb_current_offset = CmbWrap(CmbUnitSize(g) * g.ofst)]
        ELSE [in EXCEPT !.mapped = FALSE]

\* (round_offset + (aligned - 1)) & ~(aligned - 1), for aligned a power of two
CmbRoundUp(x, aligned) ==
    CmbWrap(x + (aligned - 1)) - (CmbWrap(x + (aligned - 1)) % aligned)
\* nvme_pcie_ctrlr_alloc_cmb(ctrlr, length, aligned, &offset)
AllocCmb(r, length, aligned) ==
    IF CmbWrap(CmbRoundUp(r.cmb_current_offset, aligned) + length) > r.cmb_size
    THEN [r EXCEPT !.rc = -1, !.length = length, !.aligned = aligned,
                   !.allocs = @ + 1]
    ELSE [r EXCEPT !.rc = 0, !.length = length, !.aligned = aligned,
                   !.allocs = @ + 1,
                   !.offset = CmbRoundUp(r.cmb_current_offset, aligned),
                   !.cmb_current_offset =
                       CmbWrap(CmbRoundUp(r.cmb_current_offset, aligned) + length)]

\* the controller is constructed: its BARs are allocated and the buffer mapped
CmbMap(g) ==
    /\ ~cmbreg.tried
    /\ cmbreg' = MapCmb(cmbreg, g)
    /\ UNCHANGED <<qpvars, ctrlr, held, pc, calls, adm, prp, plist>>
\* a queue pair under construction asks for room in the mapped buffer
CmbAlloc(length, aligned) ==
    /\ cmbreg.mapped
    /\ cmbreg.allocs < MaxAllocs
    /\ cmbreg' = AllocCmb(cmbreg, length, aligned)
    /\ UNCHANGED <<qpvars, ctrlr, held, pc, calls, adm, prp, plist>>

NextCmb ==
    \/ \E g \in CmbRegisters : CmbMap(g)
    \/ \E length \in {1, 2, 2 ^ CmbUnitShift + 1} : \E aligned \in {1, 2, 4} :
           CmbAlloc(length, aligned)

InitCmb ==
    /\ SideIdle
    /\ Construct(0, NVME_ADMIN_ENTRIES,
                 [reqs |-> MaxAdminReqs, ctl |-> MaxCtl, errs |-> MaxErrs])
SpecCmb == InitCmb /\ [][NextCmb]_vars

(***************************************************************************)
(* Properties.                                                             *)
(***************************************************************************)

\* the trackers of the queue pair
NumTrackersNow == NumTrackers(qid, num_entries)

\* C1: between transport operations every tracker is on exactly one of the
\* free list and the outstanding list; a tracker on the outstanding list is
\* active and holds a request, a tracker on the free list is inactive and
\* holds none; the outstanding list never has more than T members.
C1_TrackerPartition ==
    /\ SeqToSet(free_tr) \cup SeqToSet(outstanding_tr) = DOMAIN tr
    /\ SeqToSet(free_tr) \cap SeqToSet(outstanding_tr) = {}
    /\ Len(free_tr) + Len(outstanding_tr) = Cardinality(DOMAIN tr)
    /\ \A t \in SeqToSet(outstanding_tr) : tr[t].active /\ tr[t].req # NoReq
    /\ \A t \in SeqToSet(free_tr) : ~tr[t].active /\ tr[t].req = NoReq
    /\ Len(outstanding_tr) <= NumTrackersNow
\* both lists are populated, after completions and aborts moved trackers back
C1_Witness ==
    /\ free_tr # <<>>
    /\ outstanding_tr # <<>>
    /\ num_completed > 0
    /\ op.name \in {"poll", "fail", "enable"}

\* the state the ensure-enabled step of a call made by process p leaves
AfterEnsureEnabled(p) == nvme_pcie_qpair_check_enabled(State(p))
\* this step is a call of submit by process p
SubmitStep(p) == \E k \in AdminKinds \cup IoKinds : k.pid = p /\ Submit(p, k)
\* the call of submit by p finds no free tracker, or the queue pair not
\* enabled, after its ensure-enabled step
QueueBranch(p) ==
    LET s1 == AfterEnsureEnabled(p)
    IN  ~s1.fault /\ (s1.free_tr = <<>> \/ ~s1.is_enabled)
\* q2 is q1 with the request numbered rid appended
AppendedTo(q1, q2, rid) ==
    /\ Len(q2) = Len(q1) + 1
    /\ SubSeq(q2, 1, Len(q1)) = q1
    /\ q2[Len(q2)].rid = rid /\ q2[Len(q2)].retries = 0

\* C2 (as the code has it): a call of submit that, after its ensure-enabled
\* step, finds no free tracker or the queue pair not enabled appends the
\* request to the tail of queued_requests and returns success; sq_tail, the
\* SQ ring, the SQ doorbell and both tracker lists are as the ensure-enabled
\* step left them.
C2_QueueBranchFrame ==
    [][\A p \in Procs :
          (SubmitStep(p) /\ QueueBranch(p)) =>
              LET s1 == AfterEnsureEnabled(p)
              IN  /\ AppendedTo(s1.queued_req, queued_req', next_rid)
                  /\ op'.ret = 0
                  /\ sq_tail' = s1.sq_tail /\ cmd' = s1.cmd
                  /\ sq_tdbl' = s1.sq_tdbl
                  /\ free_tr' = s1.free_tr
                  /\ outstanding_tr' = s1.outstanding_tr]_vars
\* C2 as stated: the whole call leaves sq_tail, the SQ ring, the SQ doorbell
\* and both tracker lists as they were when it was made.
C2_WholeCallFrame ==
    [][\A p \in Procs :
          (SubmitStep(p) /\ QueueBranch(p)) =>
              /\ AppendedTo(queued_req, queued_req', next_rid)
              /\ op'.ret = 0
              /\ sq_tail' = sq_tail /\ cmd' = cmd /\ sq_tdbl' = sq_tdbl
              /\ free_tr' = free_tr
              /\ outstanding_tr' = outstanding_tr]_vars
\* a call of submit queued its request behind another one
C2_Witness ==
    /\ op.name = "submit"
    /\ ev # <<>> /\ ev[Len(ev)].type = "queue"
    /\ Len(queued_req) >= 2

\* positions in the event list of the last operation
EvIdx == 1..Len(ev)
\* position in ev of the first SQ copy of request rid, 0 if there is none
FirstCopy(rid) ==
    IF \E i \in EvIdx : ev[i].type = "sqcopy" /\ ev[i].rid = rid
    THEN CHOOSE i \in EvIdx :
             /\ ev[i].type = "sqcopy" /\ ev[i].rid = rid
             /\ \A j \in 1..(i - 1) : ~(ev[j].type = "sqcopy" /\ ev[j].rid = rid)
    ELSE 0
\* ev[i] is the release of a tracker, completed without retry, while a
\* request is queued and the controller is not resetting
ReleaseWithQueued(i) ==
    ev[i].type = "release" /\ ev[i].oldest # 0 /\ ~is_resetting
\* after the release ev[i] the oldest queued request is removed and copied
\* to the submission ring on the released tracker
PopsOldestOntoReleased(i) ==
    /\ i < Len(ev)
    /\ ev[i + 1].type = "pop"
    /\ ev[i + 1].rid = ev[i].oldest /\ ev[i + 1].tr = ev[i].tr
    /\ FirstCopy(ev[i].oldest) > i
    /\ ev[FirstCopy(ev[i].oldest)].tr = ev[i].tr
\* requests removed from the queue reach the submission ring in the order
\* of their removal
PopsReachSqInOrder ==
    \A i, j \in EvIdx :
        (i < j /\ ev[i].type = "pop" /\ ev[j].type = "pop") =>
            /\ ev[i].rid < ev[j].rid
            /\ (FirstCopy(ev[i].rid) # 0 /\ FirstCopy(ev[j].rid) # 0) =>
                   FirstCopy(ev[i].rid) < FirstCopy(ev[j].rid)
\* no request still queued is older than one that was removed
OldestFirst ==
    \A i \in EvIdx : ev[i].type = "pop" =>
        \A k \in 1..Len(queued_req) : queued_req[k].rid > ev[i].rid
\* one request is removed per release, none otherwise
OnePopPerRelease ==
    Cardinality({i \in EvIdx : ev[i].type = "pop"}) =
        Cardinality({i \in EvIdx : ReleaseWithQueued(i)})
\* a poll consumed one completion, without retry, from a queue pair with all
\* T trackers outstanding and one request queued
OneCompletionOfFull ==
    /\ op'.name = "poll" /\ op'.ret = 1
    /\ \A i \in 1..Len(ev') : ev'[i].type = "complete" => ~ev'[i].retry
    /\ Len(outstanding_tr) = NumTrackersNow /\ Len(queued_req) = 1
    /\ ~is_resetting

\* C3 as stated: a completion without retry, while a request is queued and
\* the controller is not resetting, removes exactly the oldest queued request
\* and submits it on the tracker just released; queued requests reach the
\* submission ring in queue order; one completion on T outstanding and one
\* queued leaves T outstanding and none queued.
C3_PopOldestSubmitsIt ==
    /\ [](/\ \A i \in EvIdx : ReleaseWithQueued(i) => PopsOldestOntoReleased(i)
          /\ PopsReachSqInOrder /\ OldestFirst /\ OnePopPerRelease)
    /\ [][OneCompletionOfFull =>
              (Len(outstanding_tr') = NumTrackersNow /\ queued_req' = <<>>)]_vars

\* a tracker released by fail() on a disabled queue pair handed a queued
\* request to submit, which first re-enabled the queue pair
C3_Witness ==
    /\ op.name = "fail"
    /\ \E i \in EvIdx : /\ ReleaseWithQueued(i) /\ ~ev[i].enabled
                         /\ i + 1 < Len(ev) /\ ev[i + 1].type = "pop"
                         /\ ev[i + 2].type = "enable"

\* C4: the number of requests passed to submit, minus those completed and
\* those waiting in queued_requests, is the length of the outstanding list.
C4_Accounting ==
    ~fault => num_submitted - (num_completed + Len(queued_req)) = Len(outstanding_tr)
\* requests have been submitted, completed and queued
C4_Witness ==
    /\ ~fault
    /\ num_completed > 0 /\ queued_req # <<>> /\ outstanding_tr # <<>>

\* C5 (as the code has it): a queue pair never has more than T commands
\* outstanding, all T trackers can be outstanding at once, and T is at most
\* N - 1.
C5_AtMostT ==
    /\ Len(outstanding_tr) <= Cardinality(DOMAIN tr)
    /\ Cardinality(DOMAIN tr) <= num_entries - 1
\* C5 as stated: never more than T - 1 commands outstanding.
C5_AtMostTMinusOne == Len(outstanding_tr) <= Cardinality(DOMAIN tr) - 1
\* all T trackers are outstanding, each with a command in the ring
C5_Witness ==
    /\ Len(outstanding_tr) = Cardinality(DOMAIN tr)
    /\ \A t \in DOMAIN tr : tr[t].active
    /\ op.name = "submit"

\* C6: every command copied into the submission ring, first submission or
\* retry, carries the array index of the tracker holding its request as
\* cmd.cid, and no two outstanding trackers have the same cid.
C6_CidIsTrackerIndex ==
    /\ \A i \in EvIdx : ev[i].type = "sqcopy" =>
           /\ ev[i].cid = ev[i].tr
           /\ ev[i].tr \in DOMAIN tr
    /\ \A a, b \in SeqToSet(outstanding_tr) :
           a # b => (tr[a].cid # tr[b].cid /\ tr[a].req.cid # tr[b].req.cid)
    /\ \A a \in SeqToSet(outstanding_tr) : tr[a].cid = a /\ tr[a].req.cid = a
\* a retry copied a command again while another tracker was outstanding
C6_Witness ==
    /\ Len(outstanding_tr) >= 2
    /\ \E i \in EvIdx : /\ ev[i].type = "complete" /\ ev[i].retry
                         /\ i < Len(ev) /\ ev[i + 1].type = "sqcopy"
                         /\ ev[i + 1].tr # 0

\* C7: after k completion entries consumed since reset, cq_head is k mod N
\* and the expected phase is 1 when floor(k/N) is even, 0 when it is odd;
\* sq_tail and cq_head are ring indices.
C7_HeadAndPhase ==
    /\ cq_head = consumed % num_entries
    /\ phase = (IF consumed < num_entries THEN 1 ELSE 0)
    /\ sq_tail \in 0..(num_entries - 1)
    /\ cq_head \in 0..(num_entries - 1)
\* the completion ring wrapped and the expected phase is 0
C7_Witness ==
    /\ consumed > num_entries
    /\ phase = 0
    /\ op.name = "poll"

\* the positions in ev of the completion entries the last operation
\* consumed, and of its writes of the CQ head doorbell
Consumes == {i \in EvIdx : ev[i].type = "consume"}
CqDoorbells == {i \in EvIdx : ev[i].type = "cq_dbl"}
\* the number, counted from the last reset, of the completion entry consumed
\* at position i of ev
EntryNumber(i) ==
    ((consumed + 2 * num_entries
        - Cardinality({j \in Consumes : j >= i})) % (2 * num_entries)) + 1
\* the last operation is the poll that consumed the fifth completion entry
\* of a queue of four entries
FifthDrained ==
    /\ num_entries = 4
    /\ op.name = "poll" /\ Consumes # {}
    /\ consumed = 5
\* the phases observed on a queue of four entries are 1,1,1,1,0 for the
\* first five completion entries
PhasesOfFive ==
    num_entries = 4 =>
        \A i \in Consumes :
            EntryNumber(i) <= 5 =>
                ev[i].phase = (IF EntryNumber(i) <= 4 THEN 1 ELSE 0)

\* C8 (as the code has it): on a queue of four entries the first five
\* completion entries are consumed with expected phases 1,1,1,1,0; one poll
\* consumes at most three of them, so the drain takes more than one poll,
\* and the poll that consumes the fifth writes the CQ head doorbell once,
\* with value 1, after its last entry.
C8_FiveOnFour ==
    /\ PhasesOfFive
    /\ FifthDrained =>
           /\ op.ret <= 3 /\ Cardinality(Consumes) = op.ret
           /\ Cardinality(CqDoorbells) = 1
           /\ \A d \in CqDoorbells :
                  ev[d].val = 1 /\ \A i \in Consumes : i < d
           /\ cq_hdbl = 1
\* C8 as stated: the five completions are drained by one poll, which writes
\* the doorbell once with value 1.
C8_FiveInOnePoll ==
    /\ PhasesOfFive
    /\ FifthDrained =>
           /\ Cardinality(Consumes) = 5
           /\ Cardinality(CqDoorbells) = 1
           /\ \A d \in CqDoorbells : ev[d].val = 1
\* the poll that consumed the fifth completion entry observed phase 0
C8_Witness ==
    /\ FifthDrained
    /\ \E i \in Consumes : EntryNumber(i) = 5 /\ ev[i].phase = 0

\* the most one call poll(max) may consume on a queue of n entries
PollLimit(max, n) == IF max = 0 \/ max > n - 1 THEN n - 1 ELSE max

\* C9: one call poll(max) consumes and returns at most N-1 completions when
\* max is 0 or greater than N-1, and at most max otherwise.
C9_PollBound ==
    (op.name = "poll" /\ ~fault) =>
        /\ op.ret <= PollLimit(op.arg, num_entries)
        /\ Cardinality(Consumes) = op.ret
\* poll(1) consumed one entry and left a valid one in the ring
C9_Witness ==
    /\ op.name = "poll" /\ op.arg = 1 /\ op.ret = 1
    /\ cpl[cq_head].p = phase

\* C10: a poll writes the CQ head doorbell exactly once, after the scan loop
\* and with the final cq_head, when it consumed an entry, and not at all
\* when it consumed none.
C10_DoorbellOncePerPoll ==
    (op.name = "poll" /\ ~fault) =>
        /\ Consumes = {} => CqDoorbells = {}
        /\ Consumes # {} =>
               /\ Cardinality(CqDoorbells) = 1
               /\ \A d \in CqDoorbells :
                      /\ ev[d].val = cq_head
                      /\ \A i \in EvIdx :
                             ev[i].type \in {"consume", "complete", "release",
                                             "pop", "sqcopy", "sq_dbl",
                                             "protocol_error"} => i < d
               /\ cq_hdbl = cq_head
\* a poll consumed two entries and wrote the doorbell after them
C10_Witness ==
    /\ op.name = "poll" /\ op.ret = 2
    /\ Cardinality(CqDoorbells) = 1
    /\ cq_hdbl = cq_head

\* this step is a call of poll by process p
PollStep(p) == \E m \in PollArgs : Poll(p, m)
\* the step left the queue pair, the doorbells and the device as they were,
\* emitted nothing and returned 0
PollDidNothing ==
    /\ op'.ret = 0 /\ ev' = <<>>
    /\ UNCHANGED <<hostvars, devvars>>

\* C11 (as the code has it): poll on a queue pair that is not enabled while
\* the controller is resetting, so that the ensure-enabled step leaves it
\* disabled, returns 0, consumes no completion entry, completes no tracker
\* and writes no doorbell.
C11_DisabledPollIsNoOp ==
    [][\A p \in Procs :
          (~is_enabled /\ is_resetting /\ PollStep(p)) => PollDidNothing]_vars
\* C11 as stated: poll on any queue pair that is not enabled when the call
\* is made returns 0 and does nothing.
C11_AnyDisabledPoll ==
    [][\A p \in Procs : (~is_enabled /\ PollStep(p)) => PollDidNothing]_vars
\* a poll returned from a disabled queue pair, during a reset, that had a
\* command outstanding and a valid completion entry at the head of the ring
C11_Witness ==
    /\ op.name = "poll"
    /\ ~is_enabled /\ is_resetting
    /\ outstanding_tr # <<>>
    /\ cpl[cq_head].p = phase

\* the positions in ev of the copies of a command into the submission ring
SqCopies == {i \in EvIdx : ev[i].type = "sqcopy"}
\* the copy at position i of ev is followed by the advance of sq_tail by one
\* modulo N, the write barrier and the doorbell write of the new sq_tail
CopyTailBarrierDoorbell(i) ==
    /\ i + 3 <= Len(ev)
    /\ ev[i].slot \in 0..(num_entries - 1)
    /\ ev[i + 1].type = "sq_tail"
    /\ ev[i + 1].val = (ev[i].slot + 1) % num_entries
    /\ ev[i + 2].type = "wmb"
    /\ ev[i + 3].type = "sq_dbl"
    /\ ev[i + 3].val = ev[i + 1].val

\* C12: every command put on the submission queue is written to
\* sq[sq_tail], then sq_tail is advanced by one modulo N, then the write
\* barrier is issued, then the SQ doorbell is written with the new sq_tail;
\* the doorbell always holds the index following the last written entry.
C12_SubmitOrder ==
    /\ \A i \in SqCopies : CopyTailBarrierDoorbell(i)
    /\ \A i \in EvIdx :
           ev[i].type \in {"sq_tail", "wmb", "sq_dbl"} =>
               \E j \in SqCopies : j < i /\ i <= j + 3
    /\ \A i, j \in SqCopies :
           (i < j /\ \A k \in SqCopies : ~(i < k /\ k < j)) =>
               ev[j].slot = ev[i + 3].val
    /\ SqCopies # {} =>
           LET last == CHOOSE i \in SqCopies : \A k \in SqCopies : k <= i
           IN  /\ sq_tdbl = (ev[last].slot + 1) % num_entries
               /\ cmd[ev[last].slot].cid = ev[last].cid
    /\ sq_tdbl = sq_tail
\* one operation copied two commands, the second into the last slot of the
\* ring, so that sq_tail and the doorbell wrapped to 0
C12_Witness ==
    /\ Cardinality(SqCopies) >= 2
    /\ \E i \in SqCopies : ev[i].slot = num_entries - 1
    /\ sq_tdbl = 0 /\ sq_tail = 0

\* the positions in ev of the calls of complete()
Completes == {i \in EvIdx : ev[i].type = "complete"}
\* the completion handled at position i of ev is an error that is
\* classified retryable
RetryableError(i) ==
    LET c == [sct |-> "GENERIC", sc |-> ev[i].sc, dnr |-> ev[i].dnr]
    IN  spdk_nvme_cpl_is_error(c) /\ nvme_completion_is_retry(c)
\* the call of complete() at position i resubmits: the next event is the
\* copy of the same request, with one more retry, on the same tracker and
\* with the tracker's index as cid
Resubmitted(i) ==
    /\ i < Len(ev)
    /\ ev[i + 1].type = "sqcopy"
    /\ ev[i + 1].tr = ev[i].tr /\ ev[i + 1].cid = ev[i].tr
    /\ ev[i + 1].rid = ev[i].rid
    /\ ev[i + 1].retries = ev[i].retries + 1
\* the call of complete() at position i finishes the request: its tracker
\* is released after nothing but the delivery and the freeing of the request
Finished(i) ==
    \E j \in EvIdx :
        /\ j > i /\ ev[j].type = "release" /\ ev[j].tr = ev[i].tr
        /\ \A k \in (i + 1)..(j - 1) :
               ev[k].type \in {"cb", "park", "drop", "free"} /\ ev[k].rid = ev[i].rid

\* C13: complete() retries exactly when the completion is a retryable error
\* and the request's retries are below the limit; a retry increments
\* retries, copies the command again on the same tracker with the same cid,
\* releases nothing and invokes no callback; otherwise the request is
\* finished and the tracker released; no command is copied with more than
\* the limit of retries, and every first copy has none.
C13_RetryUpToLimit ==
    /\ \A i \in Completes :
           /\ ev[i].retry = (RetryableError(i) /\ ev[i].retries < spdk_nvme_retry_count)
           /\ ev[i].retry => Resubmitted(i)
           /\ ~ev[i].retry => Finished(i)
    /\ \A i \in SqCopies :
           /\ ev[i].retries <= spdk_nvme_retry_count
           /\ ev[i].retries > 0 =>
                  (i > 1 /\ ev[i - 1].type = "complete" /\ ev[i - 1].retry)
    /\ \A t \in DOMAIN tr : tr[t].req.retries <= spdk_nvme_retry_count
\* one operation retried one request and finished another whose retries
\* were used up by a retryable error
C13_Witness ==
    /\ \E i \in Completes : ev[i].retry /\ ev[i].retries = 0
    /\ \E i \in Completes :
           /\ ~ev[i].retry /\ RetryableError(i)
           /\ ev[i].retries = spdk_nvme_retry_count

\* the positions in ev of the manual completions made for a failed PRP or
\* SGL build: status (GENERIC, INVALID_FIELD), do not retry
BuildFailures ==
    {i \in Completes : ev[i].sc = "INVALID_FIELD" /\ ev[i].dnr = 1 /\ ~ev[i].retry}
\* the request completed at position i has its callback invoked, next, with
\* the status of that completion
CallbackFollows(i) ==
    /\ i < Len(ev)
    /\ ev[i + 1].type = "cb"
    /\ ev[i + 1].rid = ev[i].rid
    /\ ev[i + 1].sc = ev[i].sc /\ ev[i + 1].dnr = ev[i].dnr

\* C14 as stated: a request whose PRP or SGL build fails during submit is
\* completed with (GENERIC, INVALID_FIELD, dnr=1) and its callback is
\* invoked with that completion.
C14_BuildFailureCallsBack ==
    /\ \A i \in BuildFailures : CallbackFollows(i)
    /\ \A r \in DOMAIN cb_count :
           (\E i \in BuildFailures : ev[i].rid = r) => cb_count[r] = 1
\* a call of submit failed the build of its request, completed it with
\* INVALID_FIELD and returned an error
C14_Witness ==
    /\ op.name = "submit" /\ op.ret < 0
    /\ \E i \in BuildFailures : ev[i].rid = op.arg

\* this step is a call of submit by process p with a request whose payload
\* cannot be translated
BadSubmitStep(p) ==
    \E k \in AdminKinds \cup IoKinds :
        k.payload = "bad" /\ k.pid = p /\ Submit(p, k)
\* the call reaches the builder with queued_requests empty: after the
\* ensure-enabled step the queue pair is enabled, has a free tracker and no
\* queued request
BuilderReached(s1) ==
    ~s1.fault /\ s1.is_enabled /\ s1.free_tr # <<>> /\ s1.queued_req = <<>>
\* the step returned an error, completed and freed the request numbered rid
\* exactly once, and left tracker t inactive, without request, on the free
\* list
FailedOnceTrackerFree(t, rid) ==
    /\ op'.ret < 0
    /\ t \in SeqToSet(free_tr') /\ t \notin SeqToSet(outstanding_tr')
    /\ ~tr'[t].active /\ tr'[t].req = NoReq
    /\ Cardinality({i \in 1..Len(ev') :
                        ev'[i].type = "complete" /\ ev'[i].rid = rid}) = 1
    /\ free_count'[rid] = 1 /\ cb_count'[rid] <= 1
    /\ queued_req' = <<>>

\* C15 (as the code has it): when the builder fails during submit and
\* queued_requests is empty, submit returns an error, the tracker it
\* acquired is back on the free list, inactive and without request, the
\* request has been completed and freed exactly once, and sq_tail, the SQ
\* ring, the SQ doorbell and both tracker lists are as the ensure-enabled
\* step of the call left them.
C15_BuildFailureFrame ==
    [][\A p \in Procs :
          (op'.name = "submit" /\ BadSubmitStep(p)
               /\ BuilderReached(AfterEnsureEnabled(p))) =>
              LET s1 == AfterEnsureEnabled(p)
              IN  /\ FailedOnceTrackerFree(Head(s1.free_tr), next_rid)
                  /\ sq_tail' = s1.sq_tail /\ cmd' = s1.cmd
                  /\ sq_tdbl' = s1.sq_tdbl
                  /\ free_tr' = s1.free_tr
                  /\ outstanding_tr' = s1.outstanding_tr]_vars
\* C15 as stated: sq_tail, the SQ ring and the SQ doorbell are as they were
\* when the call was made.
C15_BuildFailureWholeCall ==
    [][\A p \in Procs :
          (op'.name = "submit" /\ queued_req = <<>> /\ BadSubmitStep(p)
               /\ BuilderReached(AfterEnsureEnabled(p))) =>
              /\ FailedOnceTrackerFree(Head(AfterEnsureEnabled(p).free_tr), next_rid)
              /\ sq_tail' = sq_tail /\ cmd' = cmd /\ sq_tdbl' = sq_tdbl]_vars
\* a call of submit failed its build while other commands were outstanding
\* and nothing was queued
C15_Witness ==
    /\ op.name = "submit" /\ op.ret < 0
    /\ \E i \in BuildFailures : ev[i].rid = op.arg
    /\ queued_req = <<>> /\ outstanding_tr # <<>> /\ free_tr # <<>>
    /\ free_count[op.arg] = 1

\* the positions in ev at which the last operation consumed a completion
\* entry the device wrote for a command it fetched before the controller
\* reset
StaleConsumes == {i \in Consumes : ev[i].stale}
\* the entry consumed at position i is reported as a protocol error and
\* nothing else is done with it
ReportedOnly(i) ==
    /\ i < Len(ev)
    /\ ev[i + 1].type = "protocol_error"
    /\ i + 2 <= Len(ev) => ev[i + 2].type \in {"consume", "cq_dbl"}

\* C16 as stated: a completion the device posts, after a controller reset,
\* for a command submitted before it invokes no callback and releases no
\* tracker, whether or not new requests were submitted after the reset.
C16_StaleCompletionIgnored ==
    \A i \in StaleConsumes : ReportedOnly(i)
\* after a controller reset a poll consumed a completion for a command from
\* before the reset whose command id a new request had taken, and completed
\* the new request with it
C16_Witness ==
    /\ op.name = "poll"
    /\ \E i \in StaleConsumes :
           /\ i + 2 <= Len(ev)
           /\ ev[i + 1].type = "complete" /\ ev[i + 1].tr = ev[i].cid
           /\ ev[i + 2].type = "cb" /\ ev[i + 2].rid = ev[i + 1].rid
    /\ \E c \in dev_inflight : ~tr[c].active

\* the positions in the events of the step just taken at which the callback
\* of one of the requests of the list q is invoked
DeliveriesOf(q) ==
    {i \in 1..Len(ev') :
        ev'[i].type = "cb" /\ \E k \in 1..Len(q) : q[k].rid = ev'[i].rid}
\* the step invoked, in process p, the callback of every request of q
\* exactly once, in the order of q, with the completion saved in the
\* request, and freed the request right after
DeliveredInOrder(p, q) ==
    /\ Cardinality(DeliveriesOf(q)) = Len(q)
    /\ \A k \in 1..Len(q) :
           \E i \in DeliveriesOf(q) :
               /\ Cardinality({j \in DeliveriesOf(q) : j < i}) = k - 1
               /\ ev'[i].rid = q[k].rid /\ ev'[i].pid = p
               /\ ev'[i].sc = q[k].cpl.sc /\ ev'[i].dnr = q[k].cpl.dnr
               /\ i < Len(ev') /\ ev'[i + 1].type = "free"
               /\ ev'[i + 1].rid = q[k].rid
               /\ cb_count'[q[k].rid] = 1 /\ free_count'[q[k].rid] = 1
\* the step appended to the pending list of process q the requests it
\* parked for q, in the order it parked them, and took nothing off it
ParkedAtTail(q) ==
    LET old == active_reqs[q]
        new == active_reqs'[q]
        parks == {i \in 1..Len(ev') : ev'[i].type = "park" /\ ev'[i].pid = q}
    IN  /\ Len(new) = Len(old) + Cardinality(parks)
        /\ SubSeq(new, 1, Len(old)) = old
        /\ \A k \in (Len(old) + 1)..Len(new) :
               \E i \in parks :
                   /\ Cardinality({j \in parks : j < i}) = k - Len(old) - 1
                   /\ ev'[i].rid = new[k].rid
                   /\ i > 1 /\ ev'[i - 1].type = "complete"
                   /\ ev'[i - 1].rid = new[k].rid /\ ~ev'[i - 1].retry
                   /\ new[k].cpl.sc = ev'[i - 1].sc
                   /\ new[k].cpl.dnr = ev'[i - 1].dnr
                   /\ i < Len(ev') /\ ev'[i + 1].type = "release"
                   /\ ev'[i + 1].tr = ev'[i - 1].tr
\* callbacks run in the process that owns the request, and a parked request
\* belongs to the process on whose list it waits and has been neither
\* delivered nor freed
OwnerDelivery ==
    /\ \A i \in EvIdx : ev[i].type = "cb" => ev[i].pid = ev[i].owner
    /\ \A q \in Procs : \A k \in 1..Len(active_reqs[q]) :
           /\ active_reqs[q][k].pid = q
           /\ cb_count[active_reqs[q][k].rid] = 0
           /\ free_count[active_reqs[q][k].rid] = 0

\* C17 (as the code has it): on the admin queue a completion, not retried,
\* of a request owned by another process than the caller is not delivered
\* by the caller: the completion is saved in the request, the request is
\* appended to the owner's pending list and the tracker is released; the
\* owner's next admin poll that gets past the ensure-enabled step invokes
\* the callbacks of its pending requests exactly once each, in the order
\* they were parked, with the saved completions, and frees them; a poll that
\* returns early from a disabled queue pair delivers nothing.
C17_ParkAndDeliver ==
    /\ []OwnerDelivery
    /\ [][~fault' =>
             \A p \in Procs :
                 IF qid = 0 /\ op'.name = "poll" /\ Poll(p, op'.arg)
                          /\ AfterEnsureEnabled(p).is_enabled
                 THEN /\ DeliveredInOrder(p, active_reqs[p])
                      /\ active_reqs'[p] = <<>>
                 ELSE ParkedAtTail(p)]_vars
\* C17 as stated: the owner's next admin poll, whatever the state of the
\* queue pair, delivers its pending requests.
C17_NextPollDelivers ==
    [][\A p \in Procs :
          (~fault' /\ qid = 0 /\ active_reqs[p] # <<>> /\ op'.name = "poll"
               /\ Poll(p, op'.arg)) =>
              /\ DeliveredInOrder(p, active_reqs[p])
              /\ active_reqs'[p] = <<>>]_vars
\* the second process polled and was handed the completion that the first
\* process's poll had parked for it
C17_Witness ==
    /\ qid = 0 /\ op.name = "poll"
    /\ \E i \in EvIdx : /\ ev[i].type = "cb" /\ ev[i].pid = "p2"
                         /\ ev[i].owner = "p2"
                         /\ \A j \in EvIdx : ev[j].type # "complete"
    /\ active_reqs["p2"] = <<>>

\* positions in the construction call's record of the events of one kind
\* about one admin command
AdmEvents(kind, opc) == {i \in DOMAIN adm : adm[i].e = kind /\ adm[i].opc = opc}
\* the command completed, with or without an error
Completed(opc, err) == {i \in AdmEvents("done", opc) : adm[i].err = err}
\* the command failed: it could not be submitted, or it completed with an error
Failed(opc) == AdmEvents("nosubmit", opc) # {} \/ Completed(opc, TRUE) # {}
\* the construction call has returned; its return value
CallReturned == pc = "idle" /\ adm # <<>> /\ adm[Len(adm)].e = "return"
ReturnedError == CallReturned /\ adm[Len(adm)].rc # 0
\* the rings were reset by _nvme_pcie_ctrlr_create_io_qpair
CreateResets == {i \in DOMAIN adm : adm[i].e = "reset" /\ adm[i].by = "create"}

\* C18: create_io_queue issues Create I/O CQ first and Create I/O SQ only
\* after the completion of Create I/O CQ was seen without error; when Create
\* I/O CQ fails, no Create I/O SQ is issued and an error is returned; when
\* Create I/O SQ fails, a Delete I/O CQ is issued and awaited and an error is
\* returned; the rings are reset only when both commands succeeded.
C18_CreateIoQueueOrder ==
    /\ \A i \in AdmEvents("issue", "CREATE_IO_SQ") :
           \E j \in Completed("CREATE_IO_CQ", FALSE) : j < i
    /\ \A j \in Completed("CREATE_IO_CQ", FALSE) :
           \E i \in AdmEvents("issue", "CREATE_IO_CQ") : i < j
    /\ Failed("CREATE_IO_CQ") =>
           /\ AdmEvents("issue", "CREATE_IO_SQ") = {}
           /\ ReturnedError
    /\ (Failed("CREATE_IO_SQ") /\ CallReturned) =>
           /\ \E i \in AdmEvents("issue", "DELETE_IO_CQ") :
                  \E j \in AdmEvents("done", "DELETE_IO_CQ") : i < j
           /\ ReturnedError
    /\ CreateResets # {} =>
           /\ Completed("CREATE_IO_CQ", FALSE) # {}
           /\ Completed("CREATE_IO_SQ", FALSE) # {}
\* Create I/O CQ succeeded, Create I/O SQ could not be submitted, and the
\* call has returned an error without a Delete I/O CQ
C18_Witness ==
    /\ ReturnedError
    /\ Completed("CREATE_IO_CQ", FALSE) # {}
    /\ AdmEvents("nosubmit", "CREATE_IO_SQ") # {}
    /\ AdmEvents("issue", "DELETE_IO_CQ") = {}
    /\ AdmEvents("nosubmit", "DELETE_IO_CQ") = {}

\* what the construction call that was made last still holds
HeldByLastCall == {a \in held : a.by = calls}

\* C19: when the construction of the transport or of a queue pair fails at
\* any step, every DMA allocation, CMB allocation and BAR mapping that
\* construction made has been released when the error is returned.
C19_FailureUnwinds == ReturnedError => HeldByLastCall = {}
\* create_io_qpair has returned an error after a failed Create I/O CQ or
\* Create I/O SQ, and the rings and trackers it allocated still exist
C19_Witness ==
    /\ ReturnedError
    /\ Failed("CREATE_IO_CQ") \/ Failed("CREATE_IO_SQ")
    /\ \E a \in HeldByLastCall : a.what \in {"cmd", "cpl", "tr", "cmb_sq"}

\* the physical addresses the builder produced, prp1 first
PrpAddresses == prp.prp1 \o prp.prp2 \o prp.list
\* the builder ran on a payload whose pages all translate, and succeeded
ContigBuilt == prp.built /\ prp.rc = 0 /\ prp.bad = 0

\* C20: for a contiguous payload of size bytes (size > 0) that starts at
\* offset u of a page, the builder produces exactly ceil((size + u) / PAGE)
\* physical addresses, counting prp1, for every size up to the maximum
\* transfer size and every u in [0, PAGE).
C20_ContigPrpCount ==
    ContigBuilt =>
        /\ Len(PrpAddresses) = ((prp.size + prp.unaligned + PAGE_SIZE) - 1) \div PAGE_SIZE
        /\ Len(prp.list) <= NVME_MAX_PRP_LIST_ENTRIES
        /\ \A i \in DOMAIN PrpAddresses : PrpAddresses[i] # -1
\* a payload of the maximum transfer size that does not start on a page
\* boundary: the PRP list is full
C20_Witness ==
    /\ ContigBuilt
    /\ prp.size = NVME_MAX_XFER_SIZE /\ prp.unaligned > 0
    /\ Len(prp.list) = NVME_MAX_PRP_LIST_ENTRIES

\* the physical address of the start of page k of the payload's buffer,
\* which is where payload + k * PAGE_SIZE - u lies
PageStart(k) == Frame(k) * PAGE_SIZE

\* C21: a contiguous payload that needs one PRP entry sets prp1 only; one
\* that needs two sets prp2 to the physical address of payload + PAGE - u;
\* one that needs three or more sets prp2 to the tracker's PRP list and
\* prp[k-1] to the physical address of payload + k * PAGE - u for every k in
\* 1..nseg-1.
C21_ContigPrpLayout ==
    ContigBuilt =>
        /\ prp.prp1 = <<PageStart(0) + prp.unaligned>>
        /\ prp.nseg = 1 => prp.prp2 = <<>> /\ ~prp.prp2_list /\ prp.list = <<>>
        /\ prp.nseg = 2 =>
               prp.prp2 = <<PageStart(1)>> /\ ~prp.prp2_list /\ prp.list = <<>>
        /\ prp.nseg >= 3 =>
               /\ prp.prp2_list /\ prp.prp2 = <<>>
               /\ prp.list = [k \in 1..(prp.nseg - 1) |-> PageStart(k)]
\* two pages that start off a page boundary: three entries, two of them in
\* the PRP list
C21_Witness ==
    /\ ContigBuilt
    /\ prp.size = 2 * PAGE_SIZE /\ prp.unaligned > 0
    /\ prp.nseg = 3 /\ Len(prp.list) = 2

\* positions in the last operation's events of the completions that found
\* their tracker inactive
ProtocolErrors == {i \in EvIdx : ev[i].type = "protocol_error"}
\* the entry was consumed, nothing was done for it, and the loop went on to
\* the next entry or to the doorbell
ConsumedAndSkipped(i) ==
    /\ i > 1 /\ ev[i - 1].type = "consume" /\ ev[i - 1].cid = ev[i].cid
    /\ i < Len(ev) /\ ev[i + 1].type \in {"consume", "cq_dbl"}
\* the loop stopped at an entry that is not new, or at the clamped maximum
LoopRanOut ==
    \/ op.ret = ClampMaxCompletions([num_entries |-> num_entries], op.arg)
    \/ cpl[cq_head].p # phase
\* the last operation was a poll that met an inactive tracker
PollMetInactive == ~fault /\ op.name = "poll" /\ ProtocolErrors # {}
InactiveSkipped ==
    PollMetInactive =>
        /\ \A i \in ProtocolErrors : ConsumedAndSkipped(i)
        /\ op.ret = Cardinality(Consumes)
        /\ LoopRanOut
\* every event of the step is part of consuming entries of inactive trackers
OnlyInactive(e) ==
    \A i \in DOMAIN e : e[i].type \in {"consume", "protocol_error", "cq_dbl"}

\* C22: in poll, a completion entry with the expected phase whose tracker is
\* not active invokes no callback, changes no tracker and neither tracker
\* list, is consumed all the same (cq_head advances, the entry is counted in
\* the return value), and the loop goes on to the next entry.
C22_InactiveTrackerSkipped ==
    /\ []InactiveSkipped
    /\ [][(~fault' /\ op'.name = "poll" /\ ProtocolErrors' # {} /\ OnlyInactive(ev'))
            => /\ UNCHANGED <<tr, free_tr, outstanding_tr, queued_req, cb_count,
                              free_count, num_completed>>
               /\ cq_head' = (cq_head + op'.ret) % num_entries]_vars
\* a poll consumed the completion of an inactive tracker and then completed
\* an active one
C22_Witness ==
    /\ PollMetInactive
    /\ \E i \in ProtocolErrors :
           /\ i + 2 <= Len(ev)
           /\ ev[i + 1].type = "consume" /\ ev[i + 2].type = "complete"

\* the trackers on the outstanding list that hold an Async-Event-Request,
\* and those that hold another request
AerTrackers == {t \in SeqToSet(outstanding_tr) : tr[t].req.opc = "ASYNC_EVENT_REQUEST"}
OtherTrackers == SeqToSet(outstanding_tr) \ AerTrackers
\* the completions the step made of request rid
CompletionsOf(rid) == {i \in 1..Len(ev') : ev'[i].type = "complete" /\ ev'[i].rid = rid}
\* the step completed request rid once, aborted for queue deletion, retry
\* allowed, and did not retry it
AbortedAsAer(rid) ==
    /\ Cardinality(CompletionsOf(rid)) = 1
    /\ \A i \in CompletionsOf(rid) :
           ev'[i].sc = "ABORTED_SQ_DELETION" /\ ev'[i].dnr = 0 /\ ~ev'[i].retry
\* the step left tracker t outstanding with the request it held, and did
\* not complete that request
LeftAlone(t) ==
    /\ t \in SeqToSet(outstanding_tr')
    /\ tr'[t].req.rid = tr[t].req.rid
    /\ CompletionsOf(tr[t].req.rid) = {}
\* the step is a call of disable on the admin queue, which runs abort-AERs
AbortAersStep == qid = 0 /\ op'.name = "disable"

\* C23: abort-AERs on the admin queue returns; no tracker on the
\* outstanding list holds an Async-Event-Request then; every
\* Async-Event-Request that was outstanding was completed with (GENERIC,
\* ABORTED_SQ_DELETION, dnr=0) and not retried; every tracker that held
\* another request before the call is still outstanding with the same
\* request and received no completion.
C23_AbortAersOnly ==
    [][AbortAersStep =>
          /\ ~fault'
          /\ \A t \in SeqToSet(outstanding_tr') :
                 tr'[t].req.opc # "ASYNC_EVENT_REQUEST"
          /\ \A t \in AerTrackers : AbortedAsAer(tr[t].req.rid)
          /\ \A t \in OtherTrackers : LeftAlone(t)]_vars
\* disable on the admin queue aborted an Async-Event-Request and, in the
\* same call, aborted another outstanding request by request
C23_Witness ==
    /\ ~fault /\ qid = 0 /\ op.name = "disable"
    /\ \E i \in Completes : \E j \in Completes :
           /\ i < j
           /\ ev[i].sc = "ABORTED_SQ_DELETION"
           /\ ev[j].sc = "ABORTED_BY_REQUEST" /\ ev[j].dnr = 1

\* the step aborted by request, with do-not-retry dnr, the request that
\* tracker t held, once; a request that is not retried is finished and not
\* written to the submission queue again, one that is retried is written
\* again on the same tracker
AbortedByRequest(t, dnr) ==
    /\ Cardinality(CompletionsOf(tr[t].req.rid)) = 1
    /\ \A i \in CompletionsOf(tr[t].req.rid) :
           /\ ev'[i].tr = t
           /\ ev'[i].sc = "ABORTED_BY_REQUEST" /\ ev'[i].dnr = dnr
           /\ ev'[i].retries = tr[t].req.retries
           /\ ev'[i].retry = (dnr = 0 /\ tr[t].req.retries < spdk_nvme_retry_count)
           /\ ev'[i].retry => Resubmitted(i)'
           /\ ~ev'[i].retry =>
                  /\ Finished(i)'
                  /\ \A j \in 1..Len(ev') :
                         ev'[j].type = "sqcopy" => ev'[j].rid # tr[t].req.rid

\* C24: enable() sets is_enabled and then aborts every tracker that was
\* outstanding at the call with (GENERIC, ABORTED_BY_REQUEST): on the admin
\* queue with dnr=1, so that the request is finished and its tracker
\* released without resubmission; on an I/O queue with dnr=0, so that a
\* request whose retries are below the limit is written to the submission
\* queue again on the same tracker instead of being finished.
C24_EnableAborts ==
    [][op'.name = "enable" =>
          /\ ~fault'
          /\ is_enabled'
          /\ ev'[1].type = "enable"
          /\ \A i \in 2..Len(ev') : ev'[i].type # "enable"
          /\ \A t \in SeqToSet(outstanding_tr) :
                 AbortedByRequest(t, IF qid = 0 THEN 1 ELSE 0)]_vars
\* enable on an I/O queue resubmitted one outstanding request and finished
\* another, whose retries were used up
C24_Witness ==
    /\ ~fault /\ qid # 0 /\ op.name = "enable"
    /\ \E i \in Completes : ev[i].retry /\ ev[i].sc = "ABORTED_BY_REQUEST"
    /\ \E i \in Completes : ~ev[i].retry /\ ev[i].sc = "ABORTED_BY_REQUEST"

\* the step completed the request that tracker t held exactly once, aborted
\* by request with do-not-retry
FailedOnce(t) ==
    /\ Cardinality(CompletionsOf(tr[t].req.rid)) = 1
    /\ \A i \in CompletionsOf(tr[t].req.rid) :
           ev'[i].sc = "ABORTED_BY_REQUEST" /\ ev'[i].dnr = 1 /\ ~ev'[i].retry

\* C25: when fail() returns, the outstanding list is empty and every request
\* that was outstanding at the call has been completed exactly once with
\* (GENERIC, ABORTED_BY_REQUEST, dnr=1), also when queued_requests was not
\* empty at the call.
C25_FailAbortsAll ==
    [][op'.name = "fail" =>
          /\ ~fault'
          /\ outstanding_tr' = <<>>
          /\ \A t \in SeqToSet(outstanding_tr) : FailedOnce(t)]_vars
\* fail() has returned on an enabled queue pair and a request it took from
\* queued_requests is outstanding
C25_Witness ==
    /\ ~fault /\ op.name = "fail" /\ is_enabled
    /\ outstanding_tr # <<>>
    /\ \E i \in EvIdx : ev[i].type = "pop"
    /\ \A i \in EvIdx : ev[i].type # "enable"

\* request r waits in queued_requests
Queued(r) == \E i \in DOMAIN queued_req : queued_req[i].rid = r
\* the last operation copied the command of request r into the submission queue
WrittenToSq(r) == \E i \in EvIdx : ev[i].type = "sqcopy" /\ ev[i].rid = r

\* the scheduling under which queued requests are to make progress: the
\* device completes the commands it holds and the controller layer ends a
\* reset it has started
DevFair ==
    WF_vars(\E c \in DOMAIN tr : DevPost(c, [sc |-> "SUCCESS", dnr |-> 0]))
ResetFair == WF_vars(SetResetting(FALSE))
\* an I/O queue pair whose device posts no error
InitLive ==
    /\ SideIdle
    /\ Construct(1, NVME_IO_ENTRIES, [reqs |-> MaxReqs, ctl |-> MaxCtl, errs |-> 0])
SpecLive == InitLive /\ [][Next]_vars /\ DevFair /\ ResetFair
\* the caller keeps polling: again and again the operation made last is a poll
KeepsPolling == []<>(op.name = "poll")

C27_DisableDisables ==
    [][op'.name = "disable" => (~fault' /\ ~is_enabled')]_vars
\* disable() has returned on the admin queue after its abort of an
\* Async-Event-Request took a request from queued_requests
C27_Witness ==
    /\ ~fault /\ qid = 0 /\ op.name = "disable" /\ ~is_resetting
    /\ \E i \in EvIdx : ev[i].type = "complete" /\ ev[i].sc = "ABORTED_SQ_DELETION"
    /\ \E i \in EvIdx : ev[i].type = "pop"

\* the steps of the two processes that read or write the list
InsertSection == {"found", "link", "settail"}
RemoveSection == {"first", "tnext", "rm_cmp", "rm_read", "rm_write", "rm_last"}
\* both processes are outside the pending-list functions
PendingQuiet == plist.ipc = "idle" /\ plist.opc = "idle"
\* a request was parked and, with both processes out of the functions, it is
\* neither on the list nor delivered
Lost(r) == r <= plist.parked /\ plist.cb[r] = 0 /\ r \notin OnList(plist)

\* C28: with the locking of the two functions alone, insertion into the
\* pending list and removal from it are mutually exclusive, both being made
\* with the controller lock held, and no parked request is lost or delivered
\* twice.
C28_PendingListExclusive ==
    /\ plist.ipc \in InsertSection => plist.lock = "ins"
    /\ plist.opc \in RemoveSection => plist.lock = "own"
    /\ ~(plist.ipc \in InsertSection /\ plist.opc \in RemoveSection)
    /\ ~plist.crashed
    /\ \A r \in 1..MaxParked : plist.cb[r] <= 1
    /\ PendingQuiet => \A r \in 1..MaxParked : ~Lost(r)
\* both processes have left the functions and a parked request is lost
C28_Witness ==
    PendingQuiet /\ \E r \in 1..MaxParked : Lost(r)

\* request r is with the transport: on an outstanding tracker, in
\* queued_requests or parked on a pending list
HeldRequest(r) ==
    \/ \E t \in SeqToSet(outstanding_tr) : tr[t].req # NoReq /\ tr[t].req.rid = r
    \/ \E i \in DOMAIN queued_req : queued_req[i].rid = r
    \/ \E p \in Procs : \E i \in DOMAIN active_reqs[p] : active_reqs[p][i].rid = r

\* C29: over any sequence of operations every request accepted by submit has
\* its callback invoked at most once and is returned to the request pool
\* exactly once: not while the transport holds it, and once when it no longer
\* does, also when it was parked for another process or its owner was not
\* found.
C29_CallbackAndFreeOnce ==
    \A r \in 1..(next_rid - 1) :
        /\ cb_count[r] <= 1
        /\ free_count[r] = (IF HeldRequest(r) THEN 0 ELSE 1)
\* a poll has dropped a request whose owner was not found (freed, no
\* callback), and another request has had its callback and was freed
C29_Witness ==
    /\ ~fault /\ op.name = "poll"
    /\ \E i \in EvIdx : ev[i].type = "drop" /\ free_count[ev[i].rid] = 1
                          /\ cb_count[ev[i].rid] = 0
    /\ \E r \in 1..(next_rid - 1) : cb_count[r] = 1 /\ free_count[r] = 1

\* the step is a call of the allocator
CmbAllocStep == cmbreg.mapped /\ cmbreg'.allocs = cmbreg.allocs + 1
\* the bump offset is within the buffer
CmbOffsetWithinSize == cmbreg.mapped => cmbreg.cmb_current_offset <= cmbreg.cmb_size

\* C30: once the buffer is mapped, for every CMBSZ / CMBLOC the mapping
\* accepts (also a non-zero CMBLOC offset) and after any allocations, the bump
\* offset is at most the buffer's size; a failed allocation leaves the bump
\* offset unchanged and a successful one returns a multiple of the requested
\* alignment.
C30_CmbOffsetBounded ==
    /\ []CmbOffsetWithinSize
    /\ [][CmbAllocStep =>
             /\ cmbreg'.rc # 0 =>
                    cmbreg'.cmb_current_offset = cmbreg.cmb_current_offset
             /\ cmbreg'.rc = 0 => cmbreg'.offset % cmbreg'.aligned = 0]_vars
\* a buffer that lies at a non-zero offset of its BAR has been mapped
C30_Witness ==
    cmbreg.mapped /\ cmbreg.ofst # 0 /\ cmbreg.allocs = 0

\* the builder returned 0, so nvme_pcie_qpair_submit_request goes on to
\* nvme_pcie_qpair_submit_tracker and the command is written to the
\* submission queue
ContigSubmitted == prp.built /\ prp.rc = 0
\* a translation the builder made failed: that of a page of the payload it
\* went through, or that of the metadata buffer
ContigTranslationFailed ==
    \/ prp.bad \in 1..(((prp.size + prp.unaligned + PAGE_SIZE) - 1) \div PAGE_SIZE)
    \/ prp.md = "bad"

\* C32: no command is written to the submission queue whose prp1, prp2,
\* metadata pointer or PRP-list entry holds the translation error value: when
\* a translation made by the contiguous builder fails, for any number of
\* pages, two included, the build fails and the command is not submitted.
C32_NoSentinelSubmitted ==
    /\ ContigSubmitted => \A i \in DOMAIN PrpAddresses : PrpAddresses[i] # -1
    /\ (prp.built /\ ContigTranslationFailed) => ~ContigSubmitted
\* the builder returned 0 for a payload of two pages whose second page does
\* not translate: prp2 holds the error value
C32_Witness ==
    ContigSubmitted /\ prp.nseg = 2 /\ prp.bad = 2 /\ prp.prp2 = <<-1>>

\* what the scatter builder left the device to read: prp1, then prp2 or
\* the entries of the tracker's list that the page count covers
SglChain ==
    prp.prp1 \o prp.prp2 \o
        (IF prp.prp2_list THEN [k \in 1..(prp.nseg - 1) |-> prp.list[k]] ELSE <<>>)
SglPhys(i) == spdk_vtophys(prp.segs[i].addr, prp.bad)
\* the pages of segment i, in order
SglPagesOf(i) ==
    [k \in 1..(((SglPhys(i) % PAGE_SIZE) + prp.segs[i].len + PAGE_SIZE - 1)
                 \div PAGE_SIZE) |->
        (SglPhys(i) - (SglPhys(i) % PAGE_SIZE)) + ((k - 1) * PAGE_SIZE)]
RECURSIVE SglPagesFrom(_)
SglPagesFrom(i) ==
    IF i > Len(prp.segs) THEN <<>> ELSE SglPagesOf(i) \o SglPagesFrom(i + 1)
\* the chain that covers the segments: the first entry keeps the offset
SglExpected == <<SglPhys(1)>> \o Tail(SglPagesFrom(1))
\* the two rules on segments
SglRulesKept ==
    \A i \in DOMAIN prp.segs :
        /\ SglPhys(i) % (2 ^ SgeAlignShift) = 0
        /\ i < Len(prp.segs) => (SglPhys(i) + prp.segs[i].len) % PAGE_SIZE = 0
SglBuilt == prp.built /\ prp.segs # <<>>

\* C31: a scatter list whose segments all start on the required alignment
\* and, but for the last, end on a page boundary is built successfully into
\* a chain whose entries after prp1 are page-aligned and are exactly the
\* pages of the segments in order; a list that breaks a rule fails.
C31_SglChainCoversSegments ==
    SglBuilt =>
        /\ SglRulesKept =>
              /\ prp.rc = 0
              /\ \A i \in 2..Len(SglChain) : SglChain[i] % PAGE_SIZE = 0
              /\ SglChain = SglExpected
        /\ ~SglRulesKept => prp.rc = -1
\* two segments that keep both rules, the second starting inside a page,
\* and the address it left in prp2
C31_Witness ==
    /\ SglBuilt /\ SglRulesKept /\ prp.rc = 0
    /\ Len(prp.segs) = 2 /\ prp.nseg = 2
    /\ prp.prp2 # <<>> /\ prp.prp2[1] % PAGE_SIZE # 0

====
